---- MODULE Spec2Model ----
(***************************************************************************)
(* A model of the decimal package (decimal.go, context.go, format.go).     *)
(*                                                                         *)
(* The state is a heap of Big objects addressed by pointer, so that the    *)
(* receiver z of z.Op(x, y) may be the same object as x, as y, or as both. *)
(* Every method is an operator from heaps to heaps that performs the       *)
(* method's reads and writes in the order of the source.                   *)
(*                                                                         *)
(* The machine integer int64 is modelled as a two's complement integer of  *)
(* IntBits bits (the source has 64): compact magnitudes wrap and overflow  *)
(* exactly as in the source, at a width the model checker can enumerate.   *)
(* math/big integers are unbounded integers.                               *)
(***************************************************************************)
EXTENDS Integers, Sequences, FiniteSets, TLC

VARIABLES mem, panic, last, fuel

vars == <<mem, panic, last, fuel>>

(***************************************************************************)
(* Bounds of the model.                                                    *)
(***************************************************************************)
\* width in bits of the machine integer holding a compact magnitude
IntBits == 8
\* longest sequence of operations explored by SpecSeq
MaxSteps == 2

(***************************************************************************)
(* Integer helpers.                                                        *)
(***************************************************************************)
RECURSIVE Pow(_, _)
Pow(b, n) == IF n <= 0 THEN 1 ELSE b * Pow(b, n - 1)

IAbs(v) == IF v < 0 THEN -v ELSE v

\* Go's integer division truncates toward zero; the remainder has the sign
\* of the dividend.  (A zero divisor panics in Go; callers test for it.)
TruncDiv(a, b) ==
    IF b = 0 THEN 0
    ELSE IF (a < 0) = (b < 0) THEN IAbs(a) \div IAbs(b) ELSE -(IAbs(a) \div IAbs(b))

TruncRem(a, b) == a - b * TruncDiv(a, b)

MaxInt64 == Pow(2, IntBits - 1) - 1
MinInt64 == -Pow(2, IntBits - 1)

MaxInt32 == 2147483647
MinInt32 == -2147483647 - 1

\* the value an int64 variable holds after an arithmetic result v
Wrap(v) == ((v - MinInt64) % Pow(2, IntBits)) + MinInt64

FitsInt64(v) == v >= MinInt64 /\ v <= MaxInt64

\* c.Inflated: the compact value that marks an inflated decimal
Inflated == MinInt64

(***************************************************************************)
(* internal/arith, internal/arith/checked, internal/arith/pow.             *)
(***************************************************************************)
\* arith.Abs
Abs64(v) == IF v < 0 THEN Wrap(-v) ELSE v

\* arith.Length, arith.BigLength: the number of decimal digits of |v|
RECURSIVE BigLength(_)
BigLength(v) == IF IAbs(v) < 10 THEN 1 ELSE 1 + BigLength(IAbs(v) \div 10)

Length(v) == BigLength(v)

\* checked.Add, checked.Sub, checked.Mul: the wrapped result and whether it
\* is the exact one
checkedAdd(a, b) == [v |-> Wrap(a + b), ok |-> FitsInt64(a + b)]

checkedSub(a, b) == [v |-> Wrap(a - b), ok |-> FitsInt64(a - b)]

checkedMul(a, b) == [v |-> Wrap(a * b), ok |-> FitsInt64(a * b)]

\* checked.Add32, checked.Sub32 on scales (int32); the test is written so
\* that no intermediate exceeds the int32 range
checkedAdd32(a, b) ==
    LET ok == IF b >= 0 THEN a <= MaxInt32 - b ELSE a >= MinInt32 - b
    IN  [v |-> IF ok THEN a + b ELSE 0, ok |-> ok]

checkedSub32(a, b) ==
    LET ok == IF b >= 0 THEN a >= MinInt32 + b ELSE a <= MaxInt32 + b
    IN  [v |-> IF ok THEN a - b ELSE 0, ok |-> ok]

\* checked.SumSub: x + y - z on int32
checkedSumSub(a, b, c) ==
    LET s == checkedAdd32(a, b)
        d == checkedSub32(s.v, c)
    IN  [v |-> d.v, ok |-> s.ok /\ d.ok]

\* pow.Ten64: 10^n when it fits the machine integer
Ten64(n) == [v |-> IF FitsInt64(Pow(10, n)) THEN Pow(10, n) ELSE 0,
             ok |-> FitsInt64(Pow(10, n))]

\* pow.BigTen
BigTen(n) == Pow(10, n)

\* checked.MulPow10: x * 10^n when the product fits the machine integer
MulPow10(x, n) ==
    IF FitsInt64(Pow(10, n)) /\ FitsInt64(x * Pow(10, n))
    THEN [v |-> x * Pow(10, n), ok |-> TRUE]
    ELSE [v |-> 0, ok |-> FALSE]

\* checked.MulBigPow10: x * 10^n in arbitrary precision
MulBigPow10(x, n) == x * Pow(10, n)

(***************************************************************************)
(* form (decimal.go).  A form is a small bit set.                          *)
(***************************************************************************)
RECURSIVE BitAnd(_, _)
BitAnd(a, b) ==
    IF a = 0 \/ b = 0 THEN 0
    ELSE (a % 2) * (b % 2) + 2 * BitAnd(a \div 2, b \div 2)

BitOr(a, b) == a + b - BitAnd(a, b)

BitXor(a, b) == a + b - 2 * BitAnd(a, b)

BitAndNot(a, b) == a - BitAnd(a, b)

zero == 0
sign == 1
nzero == sign
finite == 2
snan == 4
qnan == 8
nan == BitOr(snan, qnan)
pinf == 16
ninf == BitOr(pinf, sign)
inf == pinf

(***************************************************************************)
(* Context (context.go).                                                   *)
(***************************************************************************)
DefaultPrecision == 16
noPrecision == -1

Go == 0
GDA == 1

RoundingModes ==
    {"ToNearestEven", "ToNearestAway", "ToZero", "AwayFromZero",
     "ToNegativeInf", "ToPositiveInf"}

AllConditions ==
    {"Clamped", "ConversionSyntax", "DivisionByZero", "DivisionImpossible",
     "DivisionUndefined", "Inexact", "InsufficientStorage", "InvalidContext",
     "InvalidOperation", "Overflow", "Rounded", "Subnormal", "Underflow"}

\* Context.Precision
CtxPrecision(c) ==
    IF c.precision = 0 THEN DefaultPrecision
    ELSE IF c.precision = noPrecision THEN 0
    ELSE c.precision

\* Context.SetPrecision: the new value of the precision field
SetPrecision(prec) == IF prec = 0 THEN noPrecision ELSE prec

\* the Traps of Context32, Context64 and Context128
IEEETraps == AllConditions \ {"Inexact", "Rounded", "Subnormal"}

(***************************************************************************)
(* Errors.                                                                 *)
(***************************************************************************)
nil == <<"nil", "">>
ErrNaN(msg) == <<"ErrNaN", msg>>
errorsNew(msg) == <<"error", msg>>
errOverflow == errorsNew("decimal: overflow: scale is too large")
errUnderflow == errorsNew("decimal: underflow: scale is too small")

(***************************************************************************)
(* Big (decimal.go).  m is the heap, z, x, y are pointers into it.         *)
(***************************************************************************)
isCompact(b) == b.compact # Inflated

isInflated(b) == ~isCompact(b)

\* Big.Precision
Precision(b) ==
    IF b.form # finite
    THEN (IF b.form <= nzero THEN 1 ELSE 0)
    ELSE IF isCompact(b) THEN Length(b.compact) ELSE BigLength(b.unscaled)

\* Big.Sign
Sign(b) ==
    IF b.form # finite
    THEN (IF b.form = ninf THEN -1 ELSE IF b.form = pinf THEN 1 ELSE 0)
    ELSE LET v == IF isCompact(b) THEN b.compact ELSE b.unscaled
         IN  IF v < 0 THEN -1 ELSE IF v > 0 THEN 1 ELSE 0

\* Big.Signbit
Signbit(b) ==
    IF b.form # finite
    THEN b.form = ninf \/ b.form = nzero
    ELSE IF isCompact(b) THEN b.compact < 0 ELSE b.unscaled < 0

\* Big.signal: the heap it leaves
signalMem(m, x, c, err) ==
    LET ctx == m[x].Context
    IN  IF ctx.OperatingMode = Go THEN m
        ELSE IF ctx.OperatingMode = GDA
        THEN [m EXCEPT ![x].Context.Conditions = c,
                       ![x].Context.Err =
                           IF c \cap ctx.Traps # {} THEN err ELSE @]
        ELSE [m EXCEPT ![x].Context.Conditions = c \cup {"InvalidContext"},
                       ![x].Context.Err = errorsNew("invalid OperatingMode"),
                       ![x].form = qnan]

\* a signal that never panics: the fault that C5 rules out
signalNeverPanics(m, x, err) == FALSE

\* Big.signal: whether it panics (Go mode panics on an ErrNaN)
signalPanics(m, x, err) ==
    m[x].Context.OperatingMode = Go /\ err[1] = "ErrNaN"

\* Big.signal as the last statement of a method: heap and panic
signal(m, x, c, err) ==
    [mem |-> signalMem(m, x, c, err),
     panic |-> IF signalPanics(m, x, err) THEN "ErrNaN" ELSE "none"]

\* a method that returns normally
Ret(m) == [mem |-> m, panic |-> "none"]

\* a checkNaNs that drops the condition of a signaling NaN: the fault that
\* C4 rules out
checkNaNsQuietly(m, z, x, y) ==
    LET f == BitAnd(BitOr(m[x].form, m[y].form), nan)
    IN  IF f = 0
        THEN [mem |-> m, cond |-> {}, err |-> nil]
        ELSE [mem |-> [m EXCEPT ![z].form = qnan],
              cond |-> {},
              err |-> ErrNaN("NaN as an operand")]

\* Big.checkNaNs
checkNaNs(m, z, x, y) ==
    LET f == BitAnd(BitOr(m[x].form, m[y].form), nan)
    IN  IF f = 0
        THEN [mem |-> m, cond |-> {}, err |-> nil]
        ELSE [mem |-> [m EXCEPT ![z].form = qnan],
              cond |-> IF BitAnd(f, snan) # 0 THEN {"InvalidOperation"} ELSE {},
              err |-> ErrNaN("NaN as an operand")]

\* Big.xflow (its errors are no ErrNaN, so signal never panics here)
xflow(m, z, over, neg) ==
    IF over
    THEN signalMem([m EXCEPT ![z].form = IF neg THEN ninf ELSE pinf], z,
                   {"Overflow", "Inexact", "Rounded"}, errOverflow)
    ELSE signalMem([m EXCEPT ![z].scale = MinInt32,
                             ![z].form = IF neg THEN nzero ELSE zero], z,
                   {"Underflow", "Inexact", "Rounded", "Subnormal"}, errUnderflow)

\* RoundingMode.needsInc: c compares twice the remainder with the divisor
modeNeedsInc(mode, c, pos, odd) ==
    CASE mode = "AwayFromZero" -> TRUE
      [] mode = "ToZero" -> FALSE
      [] mode = "ToPositiveInf" -> pos
      [] mode = "ToNegativeInf" -> ~pos
      [] mode = "ToNearestEven" -> c > 0 \/ (c = 0 /\ odd)
      [] mode = "ToNearestAway" -> c >= 0
      [] OTHER -> FALSE

AbsCmp(a, b) == IF IAbs(a) > IAbs(b) THEN 1 ELSE IF IAbs(a) < IAbs(b) THEN -1 ELSE 0

\* Big.needsInc, Big.needsIncBig: y the divisor, r the remainder
needsInc(m, z, y, r, pos, odd) ==
    modeNeedsInc(m[z].Context.RoundingMode, AbsCmp(2 * r, y), pos, odd)

needsIncBig(m, z, y, r, pos, odd) == needsInc(m, z, y, r, pos, odd)

Odd(v) == v % 2 = 1

\* Big.simplify: the loop
RECURSIVE simplifyLoop(_, _, _)
simplifyLoop(m, z, prec) ==
    LET c == m[z].compact
    IN  IF ~(Abs64(c) >= 10 /\ m[z].scale > prec) THEN m
        ELSE IF Odd(c) \/ TruncRem(c, 10) # 0 THEN m
        ELSE LET s == checkedSub32(m[z].scale, 1)
                 m1 == [m EXCEPT ![z].compact = TruncDiv(c, 10),
                                 ![z].Context.Conditions = @ \cup {"Rounded"},
                                 ![z].scale = s.v]
             IN  IF ~s.ok THEN xflow(m1, z, FALSE, m1[z].compact < 0)
                 ELSE simplifyLoop(m1, z, prec)

\* Big.simplify
simplify(m, z) ==
    IF m[z].scale = CtxPrecision(m[z].Context) THEN m
    ELSE simplifyLoop(m, z, CtxPrecision(m[z].Context))

\* Big.quoAndRound; sign > 0 is the constant the source passes as pos
quoAndRound(m, z, x, y) ==
    LET m1 == [m EXCEPT ![z].form = finite]
        m2 == [m1 EXCEPT ![z].compact = Wrap(TruncDiv(x, y))]
        r == TruncRem(x, y)
    IN  IF y = 0 THEN m1
        ELSE IF m2[z].Context.RoundingMode = "ToZero" THEN m2
        ELSE IF r = 0 THEN simplify(m2, z)
        ELSE IF needsInc(m2, z, y, r, sign > 0, Odd(m2[z].compact))
        THEN (IF (x < 0) = (y < 0)
              THEN [m2 EXCEPT ![z].compact = Wrap(@ + 1)]
              ELSE [m2 EXCEPT ![z].compact = Wrap(@ - 1)])
        ELSE m2

\* Big.simplifyBig: the loop
RECURSIVE simplifyBigLoop(_, _, _)
simplifyBigLoop(m, z, prec) ==
    LET u == m[z].unscaled
    IN  IF ~(IAbs(u) >= 10 /\ m[z].scale > prec) THEN m
        ELSE IF Odd(u) \/ u % 10 # 0 THEN m
        ELSE LET s == checkedSub32(m[z].scale, 1)
                 m1 == [m EXCEPT ![z].unscaled = u \div 10,
                                 ![z].Context.Conditions = @ \cup {"Rounded"},
                                 ![z].scale = s.v]
             IN  IF ~s.ok THEN xflow(m1, z, FALSE, Sign(m1[z]) < 0)
                 ELSE simplifyBigLoop(m1, z, prec)

\* Big.simplifyBig
simplifyBig(m, z) ==
    IF m[z].scale = CtxPrecision(m[z].Context) THEN m
    ELSE IF FitsInt64(m[z].unscaled)
    THEN simplify([m EXCEPT ![z].compact = m[z].unscaled], z)
    ELSE simplifyBigLoop(m, z, CtxPrecision(m[z].Context))

\* Big.quoBigAndRound.  x and y are *big.Int: xv, yv are the values they
\* point to on entry, xz (yz) tells whether x (y) points to z.unscaled, in
\* which case it reads as the quotient once z.unscaled has been written.
quoBigAndRound(m, z, xv, xz, yv, yz) ==
    LET m1 == [m EXCEPT ![z].form = finite, ![z].compact = Inflated]
        q == TruncDiv(xv, yv)
        r == TruncRem(xv, yv)
        m2 == [m1 EXCEPT ![z].unscaled = q]
        x1 == IF xz THEN q ELSE xv
        y1 == IF yz THEN q ELSE yv
    IN  IF yv = 0 THEN m1
        ELSE IF m2[z].Context.RoundingMode = "ToZero"
                /\ m2[z].scale = CtxPrecision(m2[z].Context) THEN m2
        ELSE IF r = 0 THEN simplifyBig(m2, z)
        ELSE IF needsIncBig(m2, z, y1, r, sign > 0, Odd(q))
        THEN (IF (x1 < 0) = (y1 < 0)
              THEN [m2 EXCEPT ![z].unscaled = @ + 1]
              ELSE [m2 EXCEPT ![z].unscaled = @ - 1])
        ELSE m2

\* a Round that drops the digits without adjusting the scale: the fault that
\* C14 rules out
RoundKeepsScale(m, z, n) ==
    IF n <= 0 \/ m[z].form # finite THEN m
    ELSE LET zp == Precision(m[z])
             shift == zp - n
             m1 == [m EXCEPT ![z].Context.precision = SetPrecision(n),
                             ![z].Context.Conditions = @ \cup {"Rounded"}]
         IN  IF n >= zp THEN m
             ELSE IF isCompact(m1[z]) /\ Ten64(shift).ok
             THEN quoAndRound(m1, z, m1[z].compact, Ten64(shift).v)
             ELSE IF isCompact(m1[z])
             THEN quoBigAndRound([m1 EXCEPT ![z].unscaled = m1[z].compact], z,
                                 m1[z].compact, TRUE, BigTen(shift), FALSE)
             ELSE quoBigAndRound(m1, z, m1[z].unscaled, TRUE, BigTen(shift), FALSE)

\* Big.Round
Round(m, z, n) ==
    IF n <= 0 \/ m[z].form # finite THEN m
    ELSE LET zp == Precision(m[z])
             shift == zp - n
             m1 == [m EXCEPT ![z].Context.precision = SetPrecision(n),
                             ![z].Context.Conditions = @ \cup {"Rounded"},
                             ![z].scale = @ - shift]
         IN  IF n >= zp THEN m
             ELSE IF isCompact(m1[z]) /\ Ten64(shift).ok
             THEN quoAndRound(m1, z, m1[z].compact, Ten64(shift).v)
             ELSE IF isCompact(m1[z])
             THEN quoBigAndRound([m1 EXCEPT ![z].unscaled = m1[z].compact], z,
                                 m1[z].compact, TRUE, BigTen(shift), FALSE)
             ELSE quoBigAndRound(m1, z, m1[z].unscaled, TRUE, BigTen(shift), FALSE)

\* Big.round
round(m, z) ==
    LET zp == CtxPrecision(m[z].Context)
    IN  IF zp # 0 /\ m[z].Context.OperatingMode = GDA THEN Round(m, z, zp) ELSE m

\* Big.Set
Set(m, z, x) ==
    IF z = x THEN m
    ELSE LET m1 == [m EXCEPT ![z].compact = m[x].compact,
                             ![z].form = m[x].form,
                             ![z].scale = m[x].scale,
                             ![z].unscaled =
                                 IF isInflated(m[x]) THEN m[x].unscaled ELSE @]
         IN  Round(m1, z, CtxPrecision(m1[z].Context))

\* Big.SetMantScale
SetMantScale(m, z, value, scale) ==
    IF value = 0 THEN [m EXCEPT ![z].form = zero]
    ELSE [m EXCEPT ![z].scale = scale,
                   ![z].unscaled = IF value = Inflated THEN value ELSE @,
                   ![z].compact = value,
                   ![z].form = finite]

\* Big.SetBigMantScale
SetBigMantScale(m, z, value, scale) ==
    IF value = 0 THEN [m EXCEPT ![z].form = zero]
    ELSE [m EXCEPT ![z].scale = scale,
                   ![z].unscaled = value,
                   ![z].form = finite,
                   ![z].compact = Inflated]

(***************************************************************************)
(* Addition and subtraction.                                               *)
(***************************************************************************)
\* an addCompact that keeps the scale of its first operand instead of the
\* larger scale: the fault that C9 rules out
addCompactScaleOfX(m, z, x, y) ==
    IF m[x].scale = m[y].scale
    THEN LET m1 == [m EXCEPT ![z].scale = m[x].scale]
             s == checkedAdd(m1[x].compact, m1[y].compact)
             big == m1[x].compact + m1[y].compact
         IN  IF s.ok
             THEN [m1 EXCEPT ![z].form = IF s.v = 0 THEN zero ELSE @,
                             ![z].compact = s.v]
             ELSE [m1 EXCEPT ![z].unscaled = big,
                             ![z].form = IF big = 0 THEN zero ELSE @,
                             ![z].compact = Inflated]
    ELSE LET hi == IF m[x].scale < m[y].scale THEN y ELSE x
             lo == IF m[x].scale < m[y].scale THEN x ELSE y
             inc == m[hi].scale - m[lo].scale
             m1 == [m EXCEPT ![z].scale = m[x].scale]
             scaledLo == MulPow10(m1[lo].compact, inc)
             s == checkedAdd(m1[hi].compact, scaledLo.v)
             big == MulBigPow10(m1[lo].compact, inc) + m1[hi].compact
         IN  IF scaledLo.ok /\ s.ok
             THEN [m1 EXCEPT ![z].compact = s.v]
             ELSE [m1 EXCEPT ![z].unscaled = big,
                             ![z].form = IF big = 0 THEN zero ELSE @,
                             ![z].compact = Inflated]

\* Big.addCompact
addCompact(m, z, x, y) ==
    IF m[x].scale = m[y].scale
    THEN LET m1 == [m EXCEPT ![z].scale = m[x].scale]
             s == checkedAdd(m1[x].compact, m1[y].compact)
             big == m1[x].compact + m1[y].compact
         IN  IF s.ok
             THEN [m1 EXCEPT ![z].form = IF s.v = 0 THEN zero ELSE @,
                             ![z].compact = s.v]
             ELSE [m1 EXCEPT ![z].unscaled = big,
                             ![z].form = IF big = 0 THEN zero ELSE @,
                             ![z].compact = Inflated]
    ELSE LET hi == IF m[x].scale < m[y].scale THEN y ELSE x
             lo == IF m[x].scale < m[y].scale THEN x ELSE y
             inc == m[hi].scale - m[lo].scale
             m1 == [m EXCEPT ![z].scale = m[hi].scale]
             scaledLo == MulPow10(m1[lo].compact, inc)
             s == checkedAdd(m1[hi].compact, scaledLo.v)
             big == MulBigPow10(m1[lo].compact, inc) + m1[hi].compact
         IN  IF scaledLo.ok /\ s.ok
             THEN [m1 EXCEPT ![z].compact = s.v]
             ELSE [m1 EXCEPT ![z].unscaled = big,
                             ![z].form = IF big = 0 THEN zero ELSE @,
                             ![z].compact = Inflated]

\* Big.addBig
addBig(m, z, x, y) ==
    LET xb == IF isCompact(m[x]) THEN m[x].compact ELSE m[x].unscaled
        yb == IF isCompact(m[y]) THEN m[y].compact ELSE m[y].unscaled
        m1 == [m EXCEPT ![z].compact = Inflated]
        his == IF m1[x].scale < m1[y].scale THEN m1[y].scale ELSE m1[x].scale
        los == IF m1[x].scale < m1[y].scale THEN m1[x].scale ELSE m1[y].scale
        hi == IF m1[x].scale < m1[y].scale THEN yb ELSE xb
        lo == IF m1[x].scale < m1[y].scale THEN xb ELSE yb
        sum == IF m1[x].scale = m1[y].scale THEN xb + yb
               ELSE hi + MulBigPow10(lo, his - los)
    IN  [m1 EXCEPT ![z].unscaled = sum,
                   ![z].form = IF sum = 0 THEN zero ELSE @,
                   ![z].scale = his]

\* Big.Add
Add(m, z, x, y) ==
    IF m[x].form = finite /\ m[y].form = finite
    THEN LET m1 == [m EXCEPT ![z].form = finite]
         IN  IF isCompact(m1[x]) /\ isCompact(m1[y])
             THEN Ret(round(addCompact(m1, z, x, y), z))
             ELSE Ret(round(addBig(m1, z, x, y), z))
    ELSE LET n == checkNaNs(m, z, x, y)
         IN  IF n.err # nil THEN signal(n.mem, z, n.cond, n.err)
             ELSE IF BitAnd(m[x].form, m[y].form) = inf
                     /\ BitXor(m[x].form, m[y].form) = sign
             THEN signal([m EXCEPT ![z].form = qnan], z, {"InvalidOperation"},
                         ErrNaN("addition of infinities with opposing signs"))
             ELSE IF m[x].form <= nzero /\ m[y].form <= nzero
             THEN Ret([m EXCEPT ![z].form = BitAnd(m[x].form, m[y].form)])
             ELSE IF BitAnd(m[x].form, inf) # 0 \/ m[y].form <= nzero
             THEN Ret(Set(m, z, x))
             ELSE Ret(Set(m, z, y))

\* Big.subBig.  checked.MulBigPow10 multiplies its argument in place: when
\* the argument points to an operand's unscaled field, that field changes.
subBig(m, z, x, y) ==
    LET xb == IF isCompact(m[x]) THEN m[x].compact ELSE m[x].unscaled
        yb == IF isCompact(m[y]) THEN m[y].compact ELSE m[y].unscaled
        xs == m[x].scale
        ys == m[y].scale
        xb1 == IF xs < ys THEN MulBigPow10(xb, ys - xs) ELSE xb
        yb1 == IF xs > ys THEN MulBigPow10(yb, xs - ys) ELSE yb
        m1 == IF xs < ys /\ isInflated(m[x]) THEN [m EXCEPT ![x].unscaled = xb1]
              ELSE IF xs > ys /\ isInflated(m[y]) THEN [m EXCEPT ![y].unscaled = yb1]
              ELSE m
        m2 == [m1 EXCEPT ![z].scale = IF xs < ys THEN ys ELSE xs]
        diff == xb1 - yb1
    IN  [m2 EXCEPT ![z].unscaled = diff,
                   ![z].form = IF diff = 0 THEN zero ELSE @,
                   ![z].compact = Inflated]

\* Big.subCompact
subCompact(m, z, x, y) ==
    LET xs == m[x].scale
        ys == m[y].scale
        sx == MulPow10(m[x].compact, ys - xs)
        sy == MulPow10(m[y].compact, xs - ys)
        xc == IF xs < ys THEN sx.v ELSE m[x].compact
        yc == IF xs > ys THEN sy.v ELSE m[y].compact
        m1 == [m EXCEPT ![z].scale = IF xs < ys THEN ys ELSE xs]
        d == checkedSub(xc, yc)
        m2 == [m1 EXCEPT ![z].compact = d.v]
    IN  IF (xs < ys /\ ~sx.ok) \/ (xs > ys /\ ~sy.ok) THEN subBig(m, z, x, y)
        ELSE IF d.ok THEN [m2 EXCEPT ![z].form = IF d.v = 0 THEN zero ELSE @]
        ELSE subBig(m2, z, x, y)

\* a Neg that copies the sign of an infinity or zero instead of flipping it:
\* the fault that C6 rules out
NegKeepsInfSign(m, z, x) ==
    IF m[x].form = finite
    THEN Ret([m EXCEPT ![z].compact =
                           IF isCompact(m[x]) THEN Wrap(-m[x].compact) ELSE Inflated,
                       ![z].unscaled =
                           IF isCompact(m[x]) THEN @ ELSE -m[x].unscaled,
                       ![z].scale = m[x].scale,
                       ![z].form = m[x].form])
    ELSE LET n == checkNaNs(m, z, x, x)
         IN  IF n.err # nil THEN signal(n.mem, z, n.cond, n.err)
             ELSE Ret([m EXCEPT ![z].form = m[x].form])

\* Big.Neg
Neg(m, z, x) ==
    IF m[x].form = finite
    THEN Ret([m EXCEPT ![z].compact =
                           IF isCompact(m[x]) THEN Wrap(-m[x].compact) ELSE Inflated,
                       ![z].unscaled =
                           IF isCompact(m[x]) THEN @ ELSE -m[x].unscaled,
                       ![z].scale = m[x].scale,
                       ![z].form = m[x].form])
    ELSE LET n == checkNaNs(m, z, x, x)
         IN  IF n.err # nil THEN signal(n.mem, z, n.cond, n.err)
             ELSE Ret([m EXCEPT ![z].form = BitXor(m[x].form, sign)])

\* Big.Sub
Sub(m, z, x, y) ==
    IF m[x].form = finite /\ m[y].form = finite
    THEN LET m1 == [m EXCEPT ![z].form = finite]
         IN  IF isCompact(m1[x]) /\ isCompact(m1[y])
             THEN Ret(round(subCompact(m1, z, x, y), z))
             ELSE Ret(round(subBig(m1, z, x, y), z))
    ELSE LET n == checkNaNs(m, z, x, y)
         IN  IF n.err # nil THEN signal(n.mem, z, n.cond, n.err)
             ELSE IF BitAnd(m[x].form, inf) # 0 /\ m[x].form = m[y].form
             THEN signal([m EXCEPT ![z].form = qnan], z, {"InvalidOperation"},
                         ErrNaN("subtraction of infinities with equal signs"))
             ELSE IF m[x].form <= nzero /\ m[y].form <= nzero
             THEN Ret([m EXCEPT ![z].form = zero])
             ELSE IF BitAnd(m[x].form, inf) # 0 \/ m[y].form <= nzero
             THEN Ret(Set(m, z, x))
             ELSE Neg(m, z, y)

\* Big.Abs
Abs(m, z, x) ==
    IF m[x].form = finite
    THEN Ret([m EXCEPT ![z].compact =
                           IF isCompact(m[x]) THEN Abs64(m[x].compact) ELSE @,
                       ![z].unscaled =
                           IF isCompact(m[x]) THEN @ ELSE IAbs(m[x].unscaled),
                       ![z].scale = m[x].scale,
                       ![z].form = finite])
    ELSE LET n == checkNaNs(m, z, x, x)
         IN  IF n.err # nil THEN signal(n.mem, z, n.cond, n.err)
             ELSE Ret([m EXCEPT ![x].form = BitAndNot(@, sign)])

(***************************************************************************)
(* Multiplication.                                                         *)
(***************************************************************************)
\* Big.mulCompact
mulCompact(m, z, x, y) ==
    LET sc == checkedAdd32(m[x].scale, m[y].scale)
        m1 == [m EXCEPT ![z].scale = sc.v]
        prod == checkedMul(m1[x].compact, m1[y].compact)
    IN  IF ~sc.ok THEN xflow(m, z, m[x].scale > 0, TRUE)
        ELSE IF prod.ok
        THEN [m1 EXCEPT ![z].compact = prod.v, ![z].form = finite]
        ELSE [m1 EXCEPT ![z].unscaled = m1[x].compact * m1[y].compact,
                        ![z].compact = Inflated,
                        ![z].form = finite]

\* Big.mulBig
mulBig(m, z, x, y) ==
    LET xb == IF isCompact(m[x]) THEN m[x].compact ELSE m[x].unscaled
        yb == IF isCompact(m[y]) THEN m[y].compact ELSE m[y].unscaled
        m1 == [m EXCEPT ![z].unscaled = xb * yb, ![z].compact = Inflated]
        sc == checkedAdd32(m1[x].scale, m1[y].scale)
    IN  IF ~sc.ok THEN xflow(m1, z, m1[x].scale > 0, TRUE)
        ELSE [m1 EXCEPT ![z].scale = sc.v, ![z].form = finite]

\* Big.Mul
Mul(m, z, x, y) ==
    IF m[x].form = finite /\ m[y].form = finite
    THEN LET m1 == [m EXCEPT ![z].form = finite]
         IN  IF isCompact(m1[x]) /\ isCompact(m1[y])
             THEN Ret(round(mulCompact(m1, z, x, y), z))
             ELSE Ret(round(mulBig(m1, z, x, y), z))
    ELSE LET n == checkNaNs(m, z, x, y)
         IN  IF n.err # nil THEN signal(n.mem, z, n.cond, n.err)
             ELSE IF (m[x].form <= nzero /\ BitAnd(m[y].form, inf) # 0)
                     \/ (BitAnd(m[x].form, inf) # 0 /\ m[y].form <= nzero)
             THEN signal([m EXCEPT ![z].form = qnan], z, {"InvalidOperation"},
                         ErrNaN("multiplication of zero with infinity"))
             ELSE IF BitAnd(m[x].form, inf) # 0 \/ BitAnd(m[y].form, inf) # 0
             THEN Ret([m EXCEPT ![z].form =
                           IF Sign(m[x]) # Sign(m[y]) THEN ninf ELSE pinf])
             ELSE Ret([m EXCEPT ![z].form = zero])

(***************************************************************************)
(* Division.                                                               *)
(***************************************************************************)
\* cmpNorm, cmpNormBig: whether x > y once both are normalised to [0.1, 1),
\* xp and yp being their digit counts
cmpNorm(x, xp, y, yp) == IAbs(x) * Pow(10, yp) > IAbs(y) * Pow(10, xp)

cmpNormBig(x, xp, y, yp) == cmpNorm(x, xp, y, yp)

\* checked.Int32 of sdiff + yp - xp + zp
quoScale(sdiff, yp, xp, zp) ==
    LET a == checkedAdd32(sdiff, yp)
        b == checkedSub32(a.v, xp)
        c == checkedAdd32(b.v, zp)
    IN  [v |-> c.v, ok |-> a.ok /\ b.ok /\ c.ok]

\* Big.quoCompactCore
quoCompactCore(m, z, x, xs, xp, y, ys, yp0) ==
    LET sdiff == checkedSub32(xs, ys)
        yp == IF cmpNorm(x, xp, y, yp0) THEN yp0 - 1 ELSE yp0
        zp == CtxPrecision(m[z].Context)
        sc == quoScale(sdiff.v, yp, xp, zp)
        m1 == [m EXCEPT ![z].scale = sc.v]
        shift == checkedSumSub(zp, yp, xp)
        sx == MulPow10(x, shift.v)
        ns == checkedSub32(xp, zp)
        shift2 == checkedSub32(ns.v, yp)
        sy == MulPow10(y, shift2.v)
    IN  IF ~sdiff.ok THEN xflow(m, z, ys > 0, TRUE)
        ELSE IF ~sc.ok THEN xflow(m, z, sdiff.v > 0, FALSE)
        ELSE IF ~shift.ok THEN xflow(m1, z, sc.v < 0, FALSE)
        ELSE IF shift.v > 0
        THEN (IF sx.ok THEN quoAndRound(m1, z, sx.v, y)
              ELSE quoBigAndRound(m1, z, MulBigPow10(x, shift.v), FALSE, y, FALSE))
        ELSE IF ~ns.ok THEN xflow(m1, z, zp > 0, TRUE)
        ELSE IF ns.v = yp THEN quoAndRound(m1, z, x, y)
        ELSE IF ~shift2.ok THEN xflow(m1, z, yp > 0, TRUE)
        ELSE IF sy.ok THEN quoAndRound(m1, z, x, sy.v)
        ELSE quoBigAndRound(m1, z, x, FALSE, MulBigPow10(y, shift2.v), FALSE)

\* Big.quoCompact
quoCompact(m, z, x, y) ==
    quoCompactCore(m, z, m[x].compact, m[x].scale, Precision(m[x]),
                   m[y].compact, m[y].scale, Precision(m[y]))

\* Big.quoBigCore.  xb, yb are the values of the *big.Int arguments; xz (yz)
\* tells whether the argument points to z.unscaled.
quoBigCore(m, z, xb, xz, xc, xs, xp, yb, yz, yc, ys, yp0) ==
    LET sdiff == checkedSub32(xs, ys)
        yp == IF cmpNormBig(xb, xp, yb, yp0) THEN yp0 - 1 ELSE yp0
        zp == CtxPrecision(m[z].Context)
        sc == quoScale(sdiff.v, yp, xp, zp)
        m1 == [m EXCEPT ![z].scale = sc.v]
        shift == checkedSumSub(zp, yp, xp)
        ns == checkedSub32(xp, zp)
        shift2 == checkedSub32(ns.v, yp)
        xv == IF xc = Inflated THEN xb ELSE xc
        yv == IF yc = Inflated THEN yb ELSE yc
    IN  IF ~sdiff.ok THEN xflow(m, z, ys > 0, TRUE)
        ELSE IF ~sc.ok THEN xflow(m, z, sdiff.v > 0, TRUE)
        ELSE IF ~shift.ok THEN xflow(m1, z, FALSE, TRUE)
        ELSE IF shift.v > 0
        THEN quoBigAndRound(m1, z, MulBigPow10(xv, shift.v), FALSE,
                            yv, yc = Inflated /\ yz)
        ELSE IF ~ns.ok THEN xflow(m1, z, zp > 0, TRUE)
        ELSE IF ~shift2.ok THEN xflow(m1, z, yp > 0, TRUE)
        ELSE quoBigAndRound(m1, z, xv, xc = Inflated /\ xz,
                            MulBigPow10(yv, shift2.v), FALSE)

\* Big.quoBig
quoBig(m, z, x, y) ==
    quoBigCore(m, z, m[x].unscaled, x = z, m[x].compact, m[x].scale, Precision(m[x]),
               m[y].unscaled, y = z, m[y].compact, m[y].scale, Precision(m[y]))

\* the magnitude Quo divides by when both operands are finite
quoDivisor(m, y) == IF isCompact(m[y]) THEN m[y].compact ELSE m[y].unscaled

\* Big.Quo.  Dividing by a finite operand whose magnitude is zero is an
\* integer division by zero, a run-time panic.
Quo(m, z, x, y) ==
    IF m[x].form = finite /\ m[y].form = finite
    THEN [mem |-> IF isCompact(m[x]) /\ isCompact(m[y])
                  THEN quoCompact(m, z, x, y) ELSE quoBig(m, z, x, y),
          panic |-> IF quoDivisor(m, y) = 0 THEN "runtime" ELSE "none"]
    ELSE LET n == checkNaNs(m, z, x, y)
             xs == Signbit(m[x])
             ys == Signbit(m[y])
             m1 == [m EXCEPT ![z].form =
                        IF xs # ys /\ (xs \/ ys) THEN ninf ELSE pinf]
         IN  IF n.err # nil THEN signal(n.mem, z, n.cond, n.err)
             ELSE IF (m[x].form <= nzero /\ m[y].form <= nzero)
                     \/ (BitAnd(m[x].form, inf) # 0 /\ BitAnd(m[y].form, inf) # 0)
             THEN signal([m EXCEPT ![z].form = qnan], z, {"InvalidOperation"},
                         ErrNaN("division of zero by zero or infinity by infinity"))
             ELSE IF m[x].form <= nzero \/ BitAnd(m[y].form, inf) # 0
             THEN Ret([m EXCEPT ![z].form = zero])
             ELSE IF BitAnd(m1[x].form, inf) # 0 THEN Ret(m1)
             ELSE signal(m1, z, {"DivisionByZero"}, errorsNew("division by zero"))

\* Big.SetInf
SetInf(m, x, signbit) == [m EXCEPT ![x].form = IF signbit THEN ninf ELSE pinf]

\* Big.SetNaN
SetNaN(m, z, signal_) == [m EXCEPT ![z].form = IF signal_ THEN snan ELSE qnan]

(***************************************************************************)
(* Comparison.                                                             *)
(***************************************************************************)
\* the result of big.Int.Cmp, and of the comparisons of two int64
Cmp3(a, b) == IF a > b THEN 1 ELSE IF a < b THEN -1 ELSE 0

\* Big.Cmp past the NaN check and the sign fast path: zb and xb have the same
\* nonzero Sign and different scales
cmpInflate(zb, xb) ==
    LET swap == zb.scale < xb.scale
        hi == IF swap THEN xb.scale ELSE zb.scale
        lo == IF swap THEN zb.scale ELSE xb.scale
        zc1 == IF swap THEN xb.compact ELSE zb.compact
        zm1 == IF swap THEN xb.unscaled ELSE zb.unscaled
        xc1 == IF swap THEN zb.compact ELSE xb.compact
        xm1 == IF swap THEN zb.unscaled ELSE xb.unscaled
        diff == checkedSub32(hi, lo).v
        nx == MulPow10(xc1, diff)
        xc2 == IF xc1 # Inflated /\ nx.ok THEN nx.v ELSE Inflated
        xm2 == IF xc1 # Inflated
               THEN (IF nx.ok THEN xm1 ELSE MulBigPow10(xc1, diff))
               ELSE MulBigPow10(xm1, diff)
        zc == IF swap THEN xc2 ELSE zc1
        zm == IF swap THEN xm2 ELSE zm1
        xc == IF swap THEN zc1 ELSE xc2
        xm == IF swap THEN zm1 ELSE xm2
    IN  IF zc # Inflated
        THEN (IF xc # Inflated THEN Cmp3(zc, xc) ELSE Cmp3(zc, xm))
        ELSE IF xc # Inflated THEN Cmp3(zm, xc)
        ELSE Cmp3(zm, xm)

\* Big.Cmp past the NaN check
cmpValues(zb, xb) ==
    LET zs == Sign(zb)
        xs == Sign(xb)
        zl == Precision(zb) - zb.scale
        xl == Precision(xb) - xb.scale
    IN  IF zs > xs THEN 1
        ELSE IF zs < xs THEN -1
        ELSE IF zs = 0 /\ xs = 0 THEN 0
        ELSE IF zb.scale = xb.scale
        THEN (IF isCompact(zb) /\ isCompact(xb) THEN Cmp3(zb.compact, xb.compact)
              ELSE IF isInflated(zb) /\ isInflated(xb)
              THEN Cmp3(zb.unscaled, xb.unscaled)
              ELSE IF isCompact(zb) THEN Cmp3(zb.compact, xb.unscaled)
              ELSE Cmp3(zb.unscaled, xb.compact))
        ELSE IF zl < xl THEN -zs
        ELSE IF zl > xl THEN zs
        ELSE cmpInflate(zb, xb)

\* Big.Cmp: the heap, the panic and the result
Cmp(m, z, x) ==
    LET n == checkNaNs(m, z, z, x)
        sig == signal(n.mem, z, n.cond, n.err)
    IN  IF z = x THEN [mem |-> m, panic |-> "none", ret |-> 0]
        ELSE IF n.err # nil
        THEN [mem |-> sig.mem, panic |-> sig.panic, ret |-> 0]
        ELSE [mem |-> m, panic |-> "none", ret |-> cmpValues(m[z], m[x])]

(***************************************************************************)
(* Text.  A string is a sequence of one-character strings; positions are   *)
(* counted from 1, one more than the index the source uses.                *)
(***************************************************************************)
DigitChars == <<"0", "1", "2", "3", "4", "5", "6", "7", "8", "9">>

IsDigit(c) == \E d \in 1..10 : DigitChars[d] = c

DigitVal(c) == (CHOOSE d \in 1..10 : DigitChars[d] = c) - 1

AllDigits(s) == \A i \in 1..Len(s) : IsDigit(s[i])

\* the number written by a sequence of digits
RECURSIVE DigitsValue(_)
DigitsValue(s) ==
    IF Len(s) = 0 THEN 0
    ELSE 10 * DigitsValue(SubSeq(s, 1, Len(s) - 1)) + DigitVal(s[Len(s)])

HasSign(s) == Len(s) > 0 /\ s[1] \in {"+", "-"}

Unsigned(s) == IF HasSign(s) THEN Tail(s) ELSE s

\* the digits d read from the left onto acc as a number of lo..hi, negative
\* when neg; no intermediate leaves lo..hi, the bound is returned instead
RECURSIVE ReadDigits(_, _, _, _, _)
ReadDigits(d, neg, lo, hi, acc) ==
    IF d = <<>> THEN [v |-> acc, ok |-> TRUE]
    ELSE IF neg
    THEN (IF acc < (lo + DigitVal(Head(d)) + 9) \div 10
          THEN [v |-> lo, ok |-> FALSE]
          ELSE ReadDigits(Tail(d), neg, lo, hi, 10 * acc - DigitVal(Head(d))))
    ELSE (IF acc > (hi - DigitVal(Head(d))) \div 10
          THEN [v |-> hi, ok |-> FALSE]
          ELSE ReadDigits(Tail(d), neg, lo, hi, 10 * acc + DigitVal(Head(d))))

\* strconv.ParseInt(s, 10, bits) for a type of range lo..hi: the value and
\* the error, "nil", "ErrSyntax" or "ErrRange" (the value is then the bound)
ParseInt(s, lo, hi) ==
    LET d == Unsigned(s)
        neg == HasSign(s) /\ s[1] = "-"
        r == ReadDigits(d, neg, lo, hi, 0)
    IN  IF Len(d) = 0 \/ ~AllDigits(d) THEN [v |-> 0, err |-> "ErrSyntax"]
        ELSE IF ~r.ok THEN [v |-> r.v, err |-> "ErrRange"]
        ELSE [v |-> r.v, err |-> "nil"]

\* big.Int.SetString(s, 10)
BigSetString(s) ==
    LET d == Unsigned(s)
    IN  IF Len(d) = 0 \/ ~AllDigits(d) THEN [v |-> 0, ok |-> FALSE]
        ELSE [v |-> IF HasSign(s) /\ s[1] = "-" THEN -DigitsValue(d)
                    ELSE DigitsValue(d),
              ok |-> TRUE]

\* strings.LastIndexAny(s, "Ee") and strings.IndexByte(s, '.'): the
\* position, 0 when there is none
LastIndexE(s) ==
    LET at == {i \in 1..Len(s) : s[i] \in {"e", "E"}}
    IN  IF at = {} THEN 0 ELSE CHOOSE i \in at : \A j \in at : j <= i

IndexDot(s) ==
    LET at == {i \in 1..Len(s) : s[i] = "."}
    IN  IF at = {} THEN 0 ELSE CHOOSE i \in at : \A j \in at : i <= j

\* strings.Count(s, ".")
CountDots(s) == Cardinality({i \in 1..Len(s) : s[i] = "."})

Lower(c) ==
    CASE c = "N" -> "n" [] c = "A" -> "a" [] c = "I" -> "i" [] c = "F" -> "f"
      [] c = "S" -> "s" [] c = "Q" -> "q" [] OTHER -> c

\* w is the word name followed by digits only
NamedWithDigits(w, name) ==
    /\ Len(w) >= Len(name)
    /\ SubSeq(w, 1, Len(name)) = name
    /\ AllDigits(SubSeq(w, Len(name) + 1, Len(w)))

\* parse.ParseSpecial: the form a special token names, or "none"
ParseSpecial(s) ==
    LET w == [i \in 1..Len(Unsigned(s)) |-> Lower(Unsigned(s)[i])]
        neg == HasSign(s) /\ s[1] = "-"
    IN  IF NamedWithDigits(w, <<"n", "a", "n">>)
           \/ NamedWithDigits(w, <<"q", "n", "a", "n">>)
        THEN "QNaN"
        ELSE IF NamedWithDigits(w, <<"s", "n", "a", "n">>) THEN "SNaN"
        ELSE IF w \in {<<"i", "n", "f">>,
                       <<"i", "n", "f", "i", "n", "i", "t", "y">>}
        THEN (IF neg THEN "NInf" ELSE "PInf")
        ELSE "none"

\* the longest string that strconv.ParseInt is tried on (19 for 64 bits)
MaxCompactLen == BigLength(MaxInt64)

\* int32 negation
Neg32(e) == IF e = MinInt32 THEN MinInt32 ELSE -e

\* Big.SetString, from the radix point on: s has no exponent part left
SetStringMantissa(m, z, s0, scale0) ==
    LET j == IndexDot(s0)
        dotted == CountDots(s0) = 1
        s == IF dotted THEN SubSeq(s0, 1, j - 1) \o SubSeq(s0, j + 1, Len(s0))
             ELSE s0
        sc == IF dotted THEN checkedAdd32(scale0, Len(s) - (j - 1))
              ELSE [v |-> scale0, ok |-> TRUE]
        neg == Len(s) > 0 /\ s[1] = "-"
        m1 == [m EXCEPT ![z].form = finite]
        p == ParseInt(s, MinInt64, MaxInt64)
        short == Len(s) <= MaxCompactLen
        m2 == IF ~short THEN m1
              ELSE IF p.err = "ErrRange" THEN [m1 EXCEPT ![z].compact = p.v]
              ELSE [m1 EXCEPT ![z].compact = p.v,
                              ![z].form = IF p.v = 0
                                          THEN (IF neg THEN nzero ELSE zero)
                                          ELSE @]
        m3 == IF short /\ m2[z].compact = Inflated
              THEN [m2 EXCEPT ![z].unscaled = m2[z].compact] ELSE m2
        big == BigSetString(s)
        m4 == IF (short /\ p.err = "ErrRange" /\ Len(s) = MaxCompactLen) \/ ~short
              THEN [m3 EXCEPT ![z].unscaled = big.v,
                              ![z].compact = Inflated,
                              ![z].form = IF big.v = 0
                                          THEN (IF neg THEN nzero ELSE zero)
                                          ELSE @]
              ELSE m3
    IN  IF CountDots(s0) > 1
        THEN [mem |-> signalMem(m, z, {"ConversionSyntax"},
                                errorsNew("SetString: too many '.' in input")),
              ok |-> FALSE]
        ELSE IF ~sc.ok
        THEN [mem |-> xflow(m, z, TRUE, neg), ok |-> FALSE]
        ELSE IF short /\ p.err = "ErrSyntax"
        THEN [mem |-> signalMem([m1 EXCEPT ![z].compact = p.v, ![z].form = qnan],
                                z, {"ConversionSyntax"}, errorsNew("ParseInt")),
              ok |-> FALSE]
        ELSE IF ~short /\ ~big.ok
        THEN [mem |-> signalMem(m3, z, {"ConversionSyntax"},
                                errorsNew("SetString: invalid syntax")),
              ok |-> FALSE]
        ELSE [mem |-> [m4 EXCEPT ![z].scale = sc.v], ok |-> TRUE]

\* Big.SetString: the heap and the ok result
SetString(m, z, s) ==
    LET sp == ParseSpecial(s)
        j == LastIndexE(s)
        e == ParseInt(SubSeq(s, j + 1, Len(s)), MinInt32, MaxInt32)
    IN  IF s = <<>>
        THEN [mem |-> signalMem(m, z, {"ConversionSyntax"},
                                errorsNew("SetString(\"\")")),
              ok |-> FALSE]
        ELSE IF sp # "none"
        THEN [mem |-> [m EXCEPT ![z].form =
                          CASE sp = "QNaN" -> qnan [] sp = "SNaN" -> snan
                            [] sp = "PInf" -> pinf [] sp = "NInf" -> ninf],
              ok |-> TRUE]
        ELSE IF j > 1
        THEN (IF e.err = "ErrSyntax"
              THEN [mem |-> signalMem([m EXCEPT ![z].form = qnan], z,
                                      {"ConversionSyntax"}, errorsNew("ParseInt")),
                    ok |-> FALSE]
              ELSE IF e.err = "ErrRange"
              THEN [mem |-> xflow(m, z, e.v < 0, s[1] = "-"), ok |-> FALSE]
              ELSE SetStringMantissa(m, z, SubSeq(s, 1, j - 1), Neg32(e.v)))
        ELSE SetStringMantissa(m, z, s, 0)

(***************************************************************************)
(* format.go.                                                              *)
(***************************************************************************)
\* strconv.AppendUint, big.Int.MarshalText without the sign: the digits of |v|
RECURSIVE DigitsOf(_)
DigitsOf(v) ==
    IF IAbs(v) < 10 THEN <<DigitChars[IAbs(v) + 1]>>
    ELSE DigitsOf(IAbs(v) \div 10) \o <<DigitChars[(IAbs(v) % 10) + 1]>>

\* The adjusted exponent is a Go int of 64 bits and leaves the 32 bits of a
\* scale; it is held as its tens q and its unit r in 0..9, the number
\* 10 * q + r.  Adjusted is -scale + k for k >= 0.
Adjusted(scale, k) ==
    LET sq == scale \div 10
        sr == scale % 10
        u == (IF sr > 0 THEN 10 - sr ELSE 0) + k
    IN  [q |-> (IF sr > 0 THEN -sq - 1 ELSE -sq) + (u \div 10), r |-> u % 10]

\* adj > 0, adj = 0 and adj >= -6
AdjPositive(adj) == adj.q > 0 \/ (adj.q = 0 /\ adj.r > 0)
AdjZero(adj) == adj.q = 0 /\ adj.r = 0
AdjPlain(adj) == adj.q >= 0 \/ (adj.q = -1 /\ adj.r >= 4)

\* strconv.Itoa
Itoa(adj) ==
    IF adj.q >= 0
    THEN (IF adj.q > 0 THEN DigitsOf(adj.q) ELSE <<>>) \o <<DigitChars[adj.r + 1]>>
    ELSE IF adj.r = 0 THEN <<"-">> \o DigitsOf(-adj.q) \o <<"0">>
    ELSE <<"-">> \o (IF adj.q < -1 THEN DigitsOf(-adj.q - 1) ELSE <<>>)
                 \o <<DigitChars[11 - adj.r]>>

\* n characters read from zeroReader
Zeros(n) == [i \in 1..n |-> "0"]

\* allZeros
allZeros(b) == \A i \in 1..Len(b) : b[i] = "0"

\* trimIndex: the length of b without its trailing '0's, -1 when b holds
\* nothing else
trimIndex(b) ==
    LET at == {i \in 1..Len(b) : b[i] # "0"}
    IN  IF at = {} THEN -1 ELSE CHOOSE i \in at : \A j \in at : j <= i

\* roundString's carry loop: b[1..i] with its last digit incremented
RECURSIVE carry(_, _)
carry(b, i) ==
    IF i = 0 THEN b
    ELSE IF b[i] # "9" THEN [b EXCEPT ![i] = DigitChars[DigitVal(b[i]) + 2]]
    ELSE carry([b EXCEPT ![i] = "0"], i - 1)

\* roundString
roundString(b, mode, pos, prec) ==
    LET t == SubSeq(b, 1, prec + 1)
        d == DigitVal(t[prec])
        nxt == DigitVal(t[prec + 1])
        inc == CASE mode = "AwayFromZero" -> TRUE
                 [] mode = "ToZero" -> FALSE
                 [] mode = "ToPositiveInf" -> pos
                 [] mode = "ToNegativeInf" -> ~pos
                 [] mode = "ToNearestEven" -> nxt > 5 \/ (nxt = 5 /\ d % 2 # 0)
                 [] mode = "ToNearestAway" -> nxt >= 5
                 [] OTHER -> FALSE
        c == carry([t EXCEPT ![prec] = "0"], prec - 1)
    IN  IF prec >= Len(b) THEN b
        ELSE IF allZeros(SubSeq(b, prec + 1, Len(b))) THEN SubSeq(b, 1, prec)
        ELSE IF ~(inc /\ d = 9)
        THEN SubSeq([t EXCEPT ![prec] = IF inc THEN DigitChars[d + 2] ELSE @],
                    1, prec)
        ELSE IF c[1] = "0" THEN <<"1">> \o SubSeq(c, 1, prec)
        ELSE SubSeq(c, 1, prec)

\* formatCompact
formatCompact(x) == DigitsOf(IF x < 0 THEN Wrap(-x) ELSE x)

\* formatUnscaled
formatUnscaled(unscaled) == DigitsOf(unscaled)

noWidth == -1
noPrec == -1

normal == 0
plain == 1
sci == 2

\* stringForms
stringForms(mode, f) ==
    CASE f = snan -> IF mode = Go THEN <<"N", "a", "N">> ELSE <<"s", "N", "a", "N">>
      [] f = qnan -> <<"N", "a", "N">>
      [] f = pinf -> IF mode = Go THEN <<"+", "I", "n", "f">>
                     ELSE <<"I", "n", "f", "i", "n", "i", "t", "y">>
      [] f = ninf -> IF mode = Go THEN <<"-", "I", "n", "f">>
                     ELSE <<"-", "I", "n", "f", "i", "n", "i", "t", "y">>

\* formatter.formatSci
formatSci(b, adj, e, prec) ==
    LET rest == Tail(b)
        i == trimIndex(rest)
        frac == IF i >= 0 /\ i < Len(rest) THEN SubSeq(rest, 1, i) ELSE rest
    IN  <<b[1]>>
        \o (IF Len(b) > 1 THEN <<".">> \o frac ELSE <<>>)
        \o (IF ~AdjZero(adj)
            THEN <<e>> \o (IF AdjPositive(adj) THEN <<"+">> ELSE <<>>) \o Itoa(adj)
            ELSE <<>>)

\* formatter.formatPlain
formatPlain(b, scale, prec) ==
    LET radix == Len(b) - scale
        i0 == trimIndex(b)
        tl == SubSeq(b, radix + 1, Len(b))
        i1 == trimIndex(tl)
        end == IF prec > noPrec /\ prec < Len(b) THEN prec ELSE Len(b)
    IN  IF radix = 0
        THEN <<"0", ".">> \o (IF i0 > 0 THEN SubSeq(b, 1, i0) ELSE b)
        ELSE IF radix > 0
        THEN SubSeq(b, 1, radix)
             \o (IF i1 > 0 THEN <<".">> \o SubSeq(tl, 1, i1) ELSE <<>>)
        ELSE <<"0", ".">> \o Zeros(-radix) \o SubSeq(b, 1, end)

\* formatter.format without sign flag and width: the heap (an invalid mode
\* is signalled for a value that is not finite) and the text written
format(m, x, fmt, e, prec, width) ==
    LET xb == m[x]
        mode == xb.Context.OperatingMode
        neg == Signbit(xb)
        b0 == IF isInflated(xb) THEN formatUnscaled(xb.unscaled)
              ELSE formatCompact(xb.compact)
        b == IF prec > 0 THEN roundString(b0, xb.Context.RoundingMode, ~neg, prec)
             ELSE b0
        scale == xb.scale - (IF prec > 0 THEN Len(b0) - Len(b) ELSE 0)
        adj == Adjusted(scale, Len(b) - 1)
        sgn == IF neg THEN <<"-">> ELSE <<>>
    IN  IF xb.form # finite
        THEN (IF mode \notin {Go, GDA}
              THEN [mem |-> signalMem(m, x, {}, nil), str |-> <<>>]
              ELSE IF xb.form <= nzero
              THEN [mem |-> m,
                    str |-> (IF xb.form = nzero THEN <<"-">> ELSE <<>>)
                            \o (IF width = noWidth THEN <<"0">>
                                ELSE <<"0", ".">> \o Zeros(width))]
              ELSE [mem |-> m, str |-> stringForms(mode, xb.form)])
        ELSE IF fmt # sci /\ scale >= 0 /\ (fmt = plain \/ AdjPlain(adj))
        THEN [mem |-> m, str |-> sgn \o formatPlain(b, scale, prec)]
        ELSE IF fmt # sci /\ fmt = plain /\ scale < 0
        THEN [mem |-> m, str |-> sgn \o b \o Zeros(-scale)]
        ELSE [mem |-> m, str |-> sgn \o formatSci(b, adj, e, prec)]

\* Big.String
String(m, x) == format(m, x, normal, "e", noPrec, noWidth)

(***************************************************************************)
(* Predicates.                                                             *)
(***************************************************************************)
\* the number of times the loops of IsInt divide v by ten with remainder 0
\* (the loops do not end for v = 0, which no finite decimal holds)
RECURSIVE TrailingZeros(_)
TrailingZeros(v) ==
    IF v = 0 \/ TruncRem(v, 10) # 0 THEN 0 ELSE 1 + TrailingZeros(TruncDiv(v, 10))

\* Big.IsInt
IsInt(b) ==
    LET xp == Precision(b)
        v == IF isCompact(b) THEN b.compact ELSE b.unscaled
    IN  IF b.form # finite THEN b.form <= nzero
        ELSE IF b.scale <= 0 THEN TRUE
        ELSE IF b.scale >= xp THEN FALSE
        ELSE xp - TrailingZeros(v) <= b.scale

(***************************************************************************)
(* The state machine.                                                      *)
(*                                                                         *)
(* mem    the heap: three Big objects                                      *)
(* panic  "none", or the panic that ended the program                      *)
(* last   the last method called, its arguments and the heap before it     *)
(* fuel   the number of method calls still to be made                      *)
(***************************************************************************)
Ptr == {"x", "y", "z"}

\* receivers and operands of the calls explored
Recv == {"x", "z"}
Opnd == {"x", "y"}

\* new(Big) carrying Context ctx
NewBig(ctx) ==
    [Context |-> ctx, unscaled |-> 0, compact |-> 0, scale |-> 0, form |-> zero]

MkContext(mode, prec, rm, traps) ==
    [OperatingMode |-> mode, precision |-> prec, Traps |-> traps,
     Conditions |-> {}, Err |-> nil, RoundingMode |-> rm]

\* the configurations the objects are created with: the precision is unset
\* (SetPrecision(0), no rounding) or set to one or two digits
Contexts ==
    {MkContext(mode, prec, rm, IEEETraps) :
        mode \in {Go, GDA}, prec \in {noPrecision, 1, 2}, rm \in RoundingModes}
    \cup {MkContext(2, prec, "ToNearestEven", IEEETraps) : prec \in {noPrecision, 1}}
    \cup {MkContext(GDA, 1, rm, {}) : rm \in {"ToNearestEven", "ToZero"}}

\* ways of giving an object its value: SetMantScale, SetBigMantScale,
\* SetInf (on a zero value or on a value set before), SetNaN, Neg of the
\* zero value, or leaving the zero value
CompactInputs ==
    {<<"mant", 1, 0>>, <<"mant", -1, 0>>, <<"mant", 10, 1>>, <<"mant", 10, 0>>,
     <<"mant", 15, 0>>, <<"mant", -15, 1>>,
     <<"mant", MaxInt64, 0>>, <<"mant", -MaxInt64, 1>>}

BigInputs ==
    {<<"big", 25, 0>>, <<"big", MaxInt64 + 3, 0>>, <<"big", -(MaxInt64 + 3), 1>>}

SpecialInputs ==
    {<<"zero", 0, 0>>, <<"nzero", 0, 0>>, <<"pinf", 0, 0>>, <<"ninf", 0, 0>>,
     <<"pinf", 7, 2>>, <<"qnan", 0, 0>>, <<"snan", 0, 0>>}

Inputs == CompactInputs \cup BigInputs \cup SpecialInputs

Build(m, p, k) ==
    CASE k[1] = "mant" -> SetMantScale(m, p, k[2], k[3])
      [] k[1] = "big" -> SetBigMantScale(m, p, k[2], k[3])
      [] k[1] = "zero" -> m
      [] k[1] = "nzero" -> Neg(m, p, p).mem
      [] k[1] = "pinf" -> SetInf(SetMantScale(m, p, k[2], k[3]), p, FALSE)
      [] k[1] = "ninf" -> SetInf(SetMantScale(m, p, k[2], k[3]), p, TRUE)
      [] k[1] = "qnan" -> SetNaN(m, p, FALSE)
      [] k[1] = "snan" -> SetNaN(m, p, TRUE)

NoCall == [op |-> "none", z |-> "z", x |-> "x", y |-> "y", n |-> 0,
           arg |-> <<>>, ret |-> <<>>,
           pre |-> [p \in Ptr |-> NewBig(MkContext(Go, noPrecision, "ToNearestEven", {}))]]

\* three objects of one configuration, x and y given a value, one call to make
Init ==
    /\ \E ctx \in Contexts, kx \in Inputs, ky \in Inputs :
          mem = Build(Build([p \in Ptr |-> NewBig(ctx)], "x", kx), "y", ky)
    /\ panic = "none"
    /\ last = NoCall
    /\ fuel = 1

\* the arguments of Round and SetMantScale
RoundDigits == {1, 2}
MantArgs == {0, 7, MinInt64}
ScaleArgs == {0, 2}

\* a call with argument arg that leaves heap and panic r and returns ret
CallRet(op, z, x, y, n, arg, r, ret) ==
    /\ fuel > 0
    /\ panic = "none"
    /\ mem' = r.mem
    /\ panic' = r.panic
    /\ last' = [op |-> op, z |-> z, x |-> x, y |-> y, n |-> n,
                arg |-> arg, ret |-> ret, pre |-> mem]
    /\ fuel' = fuel - 1

Call(op, z, x, y, n, r) == CallRet(op, z, x, y, n, <<>>, r, <<>>)

DoAdd == \E z \in Recv, x \in Opnd, y \in Opnd : Call("Add", z, x, y, 0, Add(mem, z, x, y))

DoSub == \E z \in Recv, x \in Opnd, y \in Opnd : Call("Sub", z, x, y, 0, Sub(mem, z, x, y))

DoMul == \E z \in Recv, x \in Opnd, y \in Opnd : Call("Mul", z, x, y, 0, Mul(mem, z, x, y))

DoQuo == \E z \in Recv, x \in Opnd, y \in Opnd : Call("Quo", z, x, y, 0, Quo(mem, z, x, y))

DoNeg == \E z \in Recv, x \in Opnd : Call("Neg", z, x, x, 0, Neg(mem, z, x))

DoAbs == \E z \in Recv, x \in Opnd : Call("Abs", z, x, x, 0, Abs(mem, z, x))

DoSet == \E z \in Recv, x \in Opnd : Call("Set", z, x, x, 0, Ret(Set(mem, z, x)))

DoRound == \E z \in Opnd, n \in RoundDigits : Call("Round", z, z, z, n, Ret(Round(mem, z, n)))

DoSetMantScale ==
    \E z \in Recv, v \in MantArgs, s \in ScaleArgs :
        Call("SetMantScale", z, z, z, s, Ret(SetMantScale(mem, z, v, s)))

\* the caller clears the conditions of an object
DoClearConditions ==
    \E z \in Recv :
        Call("ClearConditions", z, z, z, 0,
             Ret([mem EXCEPT ![z].Context.Conditions = {}]))

DoCmp ==
    \E z \in Opnd, x \in Opnd :
        CallRet("Cmp", z, x, x, 0, <<>>, Cmp(mem, z, x), <<Cmp(mem, z, x).ret>>)

Next ==
    \/ DoAdd
    \/ DoSub
    \/ DoMul
    \/ DoQuo
    \/ DoNeg
    \/ DoAbs
    \/ DoSet
    \/ DoRound
    \/ DoSetMantScale
    \/ DoClearConditions
    \/ DoCmp

Spec == Init /\ [][Next]_vars

\* sequences of calls on objects in spec-compliant mode
SeqContexts == {MkContext(GDA, 1, rm, IEEETraps) : rm \in {"ToNearestEven"}}

SeqInputsX == {<<"mant", 15, 0>>, <<"mant", 10, 1>>}
SeqInputsY == {<<"zero", 0, 0>>, <<"mant", -1, 0>>, <<"snan", 0, 0>>}

InitSeq ==
    /\ \E ctx \in SeqContexts, kx \in SeqInputsX, ky \in SeqInputsY :
          mem = Build(Build([p \in Ptr |-> NewBig(ctx)], "x", kx), "y", ky)
    /\ panic = "none"
    /\ last = NoCall
    /\ fuel = MaxSteps

SpecSeq == InitSeq /\ [][Next]_vars

\* multiplications of operands whose scales reach the largest scale
ScaleContexts ==
    {MkContext(mode, prec, rm, IEEETraps) :
        mode \in {Go, GDA}, prec \in {noPrecision, 1},
        rm \in {"ToNearestEven", "ToZero"}}

ScaleInputs ==
    {<<"mant", v, s>> : v \in {1, -1, MaxInt64}, s \in {1, MaxInt32}}
    \cup {<<"big", v, s>> : v \in {MaxInt64 + 3, -(MaxInt64 + 3)}, s \in {1, MaxInt32}}

InitScale ==
    /\ \E ctx \in ScaleContexts, kx \in ScaleInputs, ky \in ScaleInputs :
          mem = Build(Build([p \in Ptr |-> NewBig(ctx)], "x", kx), "y", ky)
    /\ panic = "none"
    /\ last = NoCall
    /\ fuel = 1

NextScale == DoMul

SpecScale == InitScale /\ [][NextScale]_vars

\* sequences of Round on values of two to four digits, of either sign, under
\* every rounding mode
RoundContexts ==
    {MkContext(mode, prec, rm, IEEETraps) :
        mode \in {Go, GDA}, prec \in {noPrecision, 2}, rm \in RoundingModes}

RoundMags == {10, 14, 15, 16, 25, 94, 95, 99, 100, 105, 120, 125}

RoundBigMags == {995, 1250, 1349, 9999}

RoundInputs ==
    {<<"mant", v, 0>> : v \in RoundMags}
    \cup {<<"mant", -v, 0>> : v \in RoundMags}
    \cup {<<"mant", 99, 1>>, <<"mant", -99, 1>>, <<"mant", 125, 2>>}
    \cup {<<"big", v, 0>> : v \in RoundBigMags}
    \cup {<<"big", -v, 0>> : v \in RoundBigMags}
    \cup {<<"big", 9999, 2>>}

InitRound ==
    /\ \E ctx \in RoundContexts, kx \in RoundInputs :
          mem = Build([p \in Ptr |-> NewBig(ctx)], "x", kx)
    /\ panic = "none"
    /\ last = NoCall
    /\ fuel = MaxSteps

NextRound == DoRound

SpecRound == InitRound /\ [][NextRound]_vars

\* texts given to SetString: numbers in plain and scientific notation,
\* special values, and malformed texts (empty, two radix points, an exponent
\* that is no number, characters that are no digits, in a short and in a
\* long text, an exponent beyond 32 bits)
StringArgs ==
    {<<>>,
     <<"1", ".", "2", ".", "3">>,
     <<"1", "e">>,
     <<"1", "e", "x">>,
     <<"1", "x">>,
     <<"1", "x", "0", "0">>,
     <<".">>,
     <<"1", ".", "5">>,
     <<"-", "0">>,
     <<"1", "2", "9">>,
     <<"1", "E", "-", "2">>,
     <<"I", "n", "f">>,
     <<"s", "N", "a", "N">>,
     <<"1", "e", "9", "9", "9", "9", "9", "9", "9", "9", "9", "9">>}

DoString ==
    \E x \in Opnd :
        CallRet("String", x, x, x, 0, <<>>, Ret(String(mem, x).mem),
                <<String(mem, x).str>>)

\* SetString of one of the texts, or of the text that String just returned
DoSetString ==
    \E z \in Recv :
        \E s \in StringArgs \cup (IF last.op = "String" THEN {last.ret[1]} ELSE {}) :
            CallRet("SetString", z, z, z, 0, s, Ret(SetString(mem, z, s).mem),
                    <<SetString(mem, z, s).ok>>)

\* values written and read back: compact and inflated magnitudes of either
\* sign, scales that are positive, zero and negative, up to both ends of the
\* scale's range
TextContexts ==
    {MkContext(mode, prec, "ToNearestEven", IEEETraps) :
        mode \in {Go, GDA}, prec \in {noPrecision, 2}}
    \cup {MkContext(2, noPrecision, "ToNearestEven", IEEETraps)}

TextInputs ==
    LET Mags == {1, 10, 15, 105, 120, MaxInt64}
        BigMags == {MaxInt64 + 1, 1000, 1250}
        Scales == {0, 1, 2, 3, 5, 8, 9, -1, -2, MaxInt32, -MaxInt32, MinInt32}
    IN  {<<"mant", v, sc>> : v \in Mags, sc \in Scales}
        \cup {<<"mant", -v, sc>> : v \in Mags, sc \in Scales}
        \cup {<<"big", v, sc>> : v \in BigMags, sc \in Scales}
        \cup {<<"big", -v, sc>> : v \in BigMags, sc \in Scales}
        \cup SpecialInputs

InitText ==
    /\ \E ctx \in TextContexts, kx \in TextInputs :
          mem = Build([p \in Ptr |-> NewBig(ctx)], "x", kx)
    /\ panic = "none"
    /\ last = NoCall
    /\ fuel = MaxSteps

NextText ==
    \/ DoString
    \/ DoSetString

SpecText == InitText /\ [][NextText]_vars

DoIsInt ==
    \E x \in Opnd :
        CallRet("IsInt", x, x, x, 0, <<>>, Ret(mem), <<IsInt(mem[x])>>)

\* roundString on the digits of a number of two to four digits, with the
\* rounding mode of x's Context as format passes it, for either sign
DoRoundString ==
    LET Numbers == {15, 25, 94, 95, 99, 105, 125, 149, 250, 251, 349, 451,
                    949, 995, 999, 1251, 8501, 9951}
    IN  \E x \in {"x"}, v \in Numbers, pos \in BOOLEAN, prec \in RoundDigits :
            CallRet("roundString", x, x, x, prec, <<DigitsOf(v), pos>>, Ret(mem),
                    <<roundString(DigitsOf(v), mem[x].Context.RoundingMode,
                                  pos, prec)>>)

\* formatter.format with a precision of significant digits, as Format does
\* for the verbs %s, %g and %e
DoFormat ==
    \E x \in Opnd, fmt \in {normal, plain, sci}, prec \in RoundDigits :
        CallRet("format", x, x, x, prec, <<fmt>>,
                Ret(format(mem, x, fmt, "e", prec, noWidth).mem),
                <<format(mem, x, fmt, "e", prec, noWidth).str>>)

\* one call of a predicate or of a formatting function on a value of one to
\* four digits, of either sign and storage, with and without trailing zeros
InitFmt ==
    LET Values == {<<"mant", v, sc>> : v \in {100, 120, 125}, sc \in {1, 2, 3, -1}}
                  \cup {<<"mant", 5, 3>>, <<"mant", 10, 1>>, <<"mant", -110, 1>>}
                  \cup {<<"big", v, sc>> : v \in {4400, 1500, -1300, 1001, 251, -1251},
                                           sc \in {1, 2, 3}}
    IN  /\ \E ctx \in RoundContexts, kx \in RoundInputs \cup Values \cup SpecialInputs :
              mem = Build([p \in Ptr |-> NewBig(ctx)], "x", kx)
        /\ panic = "none"
        /\ last = NoCall
        /\ fuel = 1

NextFmt ==
    \/ DoIsInt
    \/ DoRoundString
    \/ DoFormat

SpecFmt == InitFmt /\ [][NextFmt]_vars

(***************************************************************************)
(* Vocabulary of the properties.                                           *)
(***************************************************************************)
\* the stored magnitude of a finite decimal
Mag(b) == IF isCompact(b) THEN b.compact ELSE b.unscaled

IsNaN(b) == BitAnd(b.form, nan) # 0
IsInf(b) == BitAnd(b.form, inf) # 0
IsZero(b) == b.form <= nzero

MaxOf(a, b) == IF a < b THEN b ELSE a

\* the magnitude of b written at scale s >= b.scale
AtScale(b, s) == Mag(b) * Pow(10, s - b.scale)

\* a and b are finite and stand for the same number
SameNumber(a, b) ==
    /\ a.form = finite
    /\ b.form = finite
    /\ AtScale(a, MaxOf(a.scale, b.scale)) = AtScale(b, MaxOf(a.scale, b.scale))

\* a and b have the same form and, when finite, the same magnitude and scale
SameValue(a, b) ==
    /\ a.form = b.form
    /\ a.form = finite => (Mag(a) = Mag(b) /\ a.scale = b.scale)

\* a and b have the same form and, when finite, stand for the same number
SameFormAndNumber(a, b) ==
    /\ a.form = b.form
    /\ a.form = finite => SameNumber(a, b)

Called(ops) == last.op \in ops
Pre(p) == last.pre[p]
Post(p) == mem[p]
InMode(mode) == Pre(last.z).Context.OperatingMode = mode
Binary == {"Add", "Sub", "Mul", "Quo"}
Arithmetic == {"Add", "Sub", "Mul", "Quo", "Neg", "Abs"}

\* the operation a call ran, on heap m with receiver z
Run(op, m, z, x, y) ==
    CASE op = "Add" -> Add(m, z, x, y)
      [] op = "Sub" -> Sub(m, z, x, y)
      [] op = "Mul" -> Mul(m, z, x, y)
      [] op = "Quo" -> Quo(m, z, x, y)

(***************************************************************************)
(* C1.  In spec-compliant mode every condition bit set before a call is    *)
(* still set after it, unless the call is the caller clearing them.        *)
(***************************************************************************)
C1_ConditionsAccumulate ==
    (last.op \notin {"none", "ClearConditions"})
        => \A p \in Ptr :
              Pre(p).Context.OperatingMode = GDA
                  => Pre(p).Context.Conditions \subseteq Post(p).Context.Conditions

(***************************************************************************)
(* C2.  A decimal whose form is finite never has a stored magnitude of     *)
(* zero.                                                                   *)
(***************************************************************************)
C2_FiniteNonZero ==
    \A p \in Ptr : mem[p].form = finite => Mag(mem[p]) # 0

(***************************************************************************)
(* C3.  For Add, Sub, Mul and Quo on finite operands, a receiver that is   *)
(* one of the operands is left with the form, magnitude and scale that the *)
(* same call leaves in a distinct receiver of the same Context.            *)
(***************************************************************************)
C3_AliasedReceiver ==
    (/\ Called(Binary)
     /\ Pre(last.x).form = finite
     /\ Pre(last.y).form = finite
     /\ last.z \in {last.x, last.y})
        => SameValue(Post(last.z),
                     Run(last.op, last.pre, "z", last.x, last.y).mem["z"])

(***************************************************************************)
(* C4.  In spec-compliant mode, an arithmetic call with a signaling NaN    *)
(* operand leaves the receiver quiet-NaN with InvalidOperation set; with a *)
(* NaN operand and none signaling it leaves the receiver quiet-NaN and     *)
(* does not raise InvalidOperation.                                        *)
(***************************************************************************)
C4_NaNPropagation ==
    (/\ Called(Arithmetic)
     /\ InMode(GDA)
     /\ (IsNaN(Pre(last.x)) \/ IsNaN(Pre(last.y))))
        => /\ Post(last.z).form = qnan
           /\ IF Pre(last.x).form = snan \/ Pre(last.y).form = snan
              THEN "InvalidOperation" \in Post(last.z).Context.Conditions
              ELSE "InvalidOperation" \in Post(last.z).Context.Conditions
                      => "InvalidOperation" \in Pre(last.z).Context.Conditions

C4_Witness ==
    /\ Called({"Mul"})
    /\ InMode(GDA)
    /\ Pre(last.x).form = snan
    /\ Pre(last.y).form = finite
    /\ Post(last.z).form = qnan
    /\ "InvalidOperation" \in Post(last.z).Context.Conditions

(***************************************************************************)
(* C5.  The NaN-producing cases: a NaN operand, +Inf + -Inf, Inf - Inf of  *)
(* equal sign, 0 * Inf, 0 / 0, Inf / Inf.  In native mode each ends in a   *)
(* panic carrying ErrNaN; in spec-compliant mode none panics, the receiver *)
(* is quiet-NaN and (but for quiet NaN operands, which raise nothing)      *)
(* InvalidOperation is recorded.                                           *)
(***************************************************************************)
InvalidCase ==
    LET x == Pre(last.x)
        y == Pre(last.y)
    IN  /\ ~IsNaN(x)
        /\ ~IsNaN(y)
        /\ \/ Called({"Add"}) /\ IsInf(x) /\ IsInf(y) /\ x.form # y.form
           \/ Called({"Sub"}) /\ IsInf(x) /\ IsInf(y) /\ x.form = y.form
           \/ Called({"Mul"}) /\ ((IsZero(x) /\ IsInf(y)) \/ (IsInf(x) /\ IsZero(y)))
           \/ Called({"Quo"}) /\ ((IsZero(x) /\ IsZero(y)) \/ (IsInf(x) /\ IsInf(y)))

NaNOperandCase ==
    Called(Arithmetic) /\ (IsNaN(Pre(last.x)) \/ IsNaN(Pre(last.y)))

C5_NaNFailureByMode ==
    (InvalidCase \/ NaNOperandCase)
        => /\ InMode(Go) => panic = "ErrNaN"
           /\ InMode(GDA)
                 => /\ panic = "none"
                    /\ Post(last.z).form = qnan
                    /\ (InvalidCase \/ Pre(last.x).form = snan \/ Pre(last.y).form = snan)
                          => "InvalidOperation" \in Post(last.z).Context.Conditions

C5_Witness ==
    /\ Called({"Quo"})
    /\ InMode(Go)
    /\ IsZero(Pre(last.x))
    /\ IsZero(Pre(last.y))
    /\ panic = "ErrNaN"

(***************************************************************************)
(* C6.  Add of infinities of opposite sign and Sub of infinities of equal  *)
(* sign give quiet-NaN and raise InvalidOperation (spec-compliant mode).   *)
(* Every other Add or Sub of non-NaN operands of which one or both are     *)
(* infinite gives the infinity of the expected sign and raises nothing.    *)
(***************************************************************************)
ExpectedInf ==
    LET x == Pre(last.x)
        y == Pre(last.y)
    IN  IF IsInf(x) THEN x.form
        ELSE IF Called({"Add"}) THEN y.form
        ELSE BitXor(y.form, sign)

C7_DivisionByZero ==
    (/\ Called({"Quo"})
     /\ InMode(GDA)
     /\ IsZero(Pre(last.y)))
        => /\ (Pre(last.x).form = finite /\ Mag(Pre(last.x)) # 0)
                  => /\ "DivisionByZero" \in Post(last.z).Context.Conditions
                     /\ Post(last.z).form =
                            IF Signbit(Pre(last.x)) # Signbit(Pre(last.y))
                            THEN ninf ELSE pinf
           /\ IsZero(Pre(last.x))
                  => /\ "InvalidOperation" \in Post(last.z).Context.Conditions
                     /\ Post(last.z).form = qnan

(***************************************************************************)
(* C8.  Sub(x, x) for finite x, and any Add or Sub of finite operands that *)
(* cancels exactly, gives negative zero when the rounding mode is          *)
(* ToNegativeInf and positive zero under every other rounding mode.        *)
(***************************************************************************)
Negated(b) == [b EXCEPT !.compact = IF isCompact(b) THEN -b.compact ELSE @,
                        !.unscaled = -b.unscaled]

CancelsExactly ==
    /\ Pre(last.x).form = finite
    /\ Pre(last.y).form = finite
    /\ \/ Called({"Sub"}) /\ SameNumber(Pre(last.x), Pre(last.y))
       \/ Called({"Add"}) /\ SameNumber(Pre(last.x), Negated(Pre(last.y)))

C8_CancellationSign ==
    CancelsExactly
        => Post(last.z).form =
              IF Pre(last.z).Context.RoundingMode = "ToNegativeInf"
              THEN nzero ELSE zero

(***************************************************************************)
(* C9.  For non-NaN x and y whose infinities do not conflict, Add(x, y)    *)
(* and Add(y, x) computed into fresh receivers of the same Context have    *)
(* the same form and are numerically equal.                                *)
(***************************************************************************)
C9_AddCommutes ==
    (/\ Called({"Add"})
     /\ last.z = "z"
     /\ ~IsNaN(Pre(last.x))
     /\ ~IsNaN(Pre(last.y))
     /\ ~InvalidCase)
        => SameFormAndNumber(Post("z"),
                             Add(last.pre, "z", last.y, last.x).mem["z"])

C9_Witness ==
    /\ Called({"Add"})
    /\ last.z = "z"
    /\ last.x # last.y
    /\ Pre(last.x).form = finite
    /\ Pre(last.y).form = finite
    /\ Pre(last.x).scale < Pre(last.y).scale
    /\ Post("z").form = finite
    /\ Mag(Post("z")) # 0

(***************************************************************************)
(* C10.  For finite x and a receiver z distinct from x, z.Add(x, +0)       *)
(* leaves z numerically equal to x: in native mode whatever the number of  *)
(* digits of x, in spec-compliant mode when x fits the precision of z.     *)
(***************************************************************************)
FitsPrecision(b, ctx) ==
    CtxPrecision(ctx) = 0 \/ Precision(b) <= CtxPrecision(ctx)

C10_AddZeroIdentity ==
    (/\ Called({"Add"})
     /\ last.z = "z"
     /\ Pre(last.x).form = finite
     /\ Pre(last.y).form = zero
     /\ InMode(Go) \/ (InMode(GDA) /\ FitsPrecision(Pre(last.x), Pre("z").Context)))
        => SameNumber(Post("z"), Pre(last.x))

(***************************************************************************)
(* C11.  In native mode Add, Sub and Mul of finite operands, computed into *)
(* a receiver distinct from the operands, are exact at every precision:    *)
(* Add and Sub give x + y and x - y at the larger scale, Mul the product   *)
(* of the magnitudes at the sum of the scales, also when the machine       *)
(* arithmetic overflows; no error is recorded.                             *)
(***************************************************************************)
ExactResult ==
    LET x == Pre(last.x)
        y == Pre(last.y)
        s == MaxOf(x.scale, y.scale)
    IN  CASE Called({"Add"}) -> [v |-> AtScale(x, s) + AtScale(y, s), s |-> s]
          [] Called({"Sub"}) -> [v |-> AtScale(x, s) - AtScale(y, s), s |-> s]
          [] Called({"Mul"}) -> [v |-> Mag(x) * Mag(y), s |-> x.scale + y.scale]

\* b holds the exact result (a zero result in either representation)
IsExact(b) ==
    IF ExactResult.v = 0
    THEN b.form = zero \/ (b.form = finite /\ Mag(b) = 0)
    ELSE b.form = finite /\ Mag(b) = ExactResult.v /\ b.scale = ExactResult.s

C11_NativeExact ==
    (/\ Called({"Add", "Sub", "Mul"})
     /\ InMode(Go)
     /\ last.z = "z"
     /\ Pre(last.x).form = finite
     /\ Pre(last.y).form = finite)
        => /\ panic = "none"
           /\ IsExact(Post("z"))
           /\ Post("z").Context.Err = nil

(***************************************************************************)
(* C12.  In spec-compliant mode with a configured precision p >= 1, a      *)
(* finite result of Add, Sub or Mul has at most p digits, also when one    *)
(* operand is a zero and the other is copied.                              *)
(***************************************************************************)
C12_PrecisionBound ==
    (/\ Called({"Add", "Sub", "Mul"})
     /\ InMode(GDA)
     /\ last.z = "z"
     /\ CtxPrecision(Pre("z").Context) >= 1
     /\ panic = "none"
     /\ Post("z").form = finite)
        => Precision(Post("z")) <= CtxPrecision(Pre("z").Context)

(***************************************************************************)
(* C13.  Mul of finite operands whose scales sum to more than the largest  *)
(* scale gives the infinity with the sign of the product and, in           *)
(* spec-compliant mode, raises Overflow, Inexact and Rounded.              *)
(***************************************************************************)
ScaleSumOverflows ==
    /\ Pre(last.x).scale > 0
    /\ Pre(last.y).scale > MaxInt32 - Pre(last.x).scale

C13_MulOverflowSign ==
    (/\ Called({"Mul"})
     /\ Pre(last.x).form = finite
     /\ Pre(last.y).form = finite
     /\ ScaleSumOverflows)
        => /\ Post(last.z).form =
                 IF Signbit(Pre(last.x)) = Signbit(Pre(last.y)) THEN pinf ELSE ninf
           /\ InMode(GDA)
                 => {"Overflow", "Inexact", "Rounded"}
                        \subseteq Post(last.z).Context.Conditions

(***************************************************************************)
(* C14.  Round(n) of a finite value that has no more than n significant    *)
(* digits (it was already rounded to n digits, or it has at most n digits) *)
(* leaves the numeric value unchanged.                                     *)
(***************************************************************************)
RECURSIVE StripZeros(_)
StripZeros(v) == IF v # 0 /\ v % 10 = 0 THEN StripZeros(v \div 10) ELSE v

\* the number of digits of the magnitude without its trailing zeros
SigDigits(b) == BigLength(StripZeros(IAbs(Mag(b))))

RoundedMagnitude(v, d, mode) ==
    LET a == IAbs(v)
        q == a \div d
        r == a % d
        up == CASE mode = "ToZero" -> FALSE
                [] mode = "AwayFromZero" -> r > 0
                [] mode = "ToPositiveInf" -> v > 0 /\ r > 0
                [] mode = "ToNegativeInf" -> v < 0 /\ r > 0
                [] mode = "ToNearestEven" -> 2 * r > d \/ (2 * r = d /\ q % 2 = 1)
                [] mode = "ToNearestAway" -> 2 * r >= d
    IN  (IF up THEN q + 1 ELSE q) * d

\* the magnitude of b rounded to n significant digits, at the scale of b
ExpectedRound(b, n) ==
    LET m == RoundedMagnitude(Mag(b), Pow(10, Precision(b) - n),
                              b.Context.RoundingMode)
    IN  IF Mag(b) < 0 THEN -m ELSE m

C15_RoundCorrect ==
    (/\ Called({"Round"})
     /\ last.n >= 1
     /\ Pre(last.z).form = finite
     /\ Precision(Pre(last.z)) > last.n)
        => /\ Post(last.z).form = finite
           /\ Post(last.z).scale <= Pre(last.z).scale
           /\ Mag(Post(last.z)) * Pow(10, Pre(last.z).scale - Post(last.z).scale)
                 = ExpectedRound(Pre(last.z), last.n)

(***************************************************************************)
(* C20.  When the operating mode of the receiver is neither Go nor GDA,    *)
(* Add, Sub, Mul and Quo leave the receiver quiet-NaN with InvalidContext  *)
(* set and an error recorded, also for ordinary finite operands.           *)
(***************************************************************************)
C20_InvalidMode ==
    (/\ Called(Binary)
     /\ Pre(last.z).Context.OperatingMode \notin {Go, GDA})
        => /\ Post(last.z).form = qnan
           /\ "InvalidContext" \in Post(last.z).Context.Conditions
           /\ Post(last.z).Context.Err # nil

(***************************************************************************)
(* C18.  For non-NaN z and x in distinct objects, z.Cmp(x) is -1, 0 or +1  *)
(* by the numeric order: values equal up to trailing zeros and zeros of    *)
(* either sign compare 0, an infinity equals an infinity of its sign and   *)
(* lies beyond every finite value whatever magnitude and scale it held     *)
(* before, and z.Cmp(x) = -x.Cmp(z).                                       *)
(***************************************************************************)
\* the value of a zero or finite b as an integer at scale s
ValueAt(b, s) == IF IsZero(b) THEN 0 ELSE AtScale(b, s)

NumericOrder(zb, xb) ==
    LET s == MaxOf(IF zb.form = finite THEN zb.scale ELSE 0,
                   IF xb.form = finite THEN xb.scale ELSE 0)
    IN  IF IsInf(zb) /\ IsInf(xb) THEN Cmp3(Sign(zb), Sign(xb))
        ELSE IF IsInf(zb) THEN Sign(zb)
        ELSE IF IsInf(xb) THEN -Sign(xb)
        ELSE Cmp3(ValueAt(zb, s), ValueAt(xb, s))

C18_CmpOrder ==
    (/\ Called({"Cmp"})
     /\ last.z # last.x
     /\ ~IsNaN(Pre(last.z))
     /\ ~IsNaN(Pre(last.x)))
        => /\ panic = "none"
           /\ last.ret[1] = NumericOrder(Pre(last.z), Pre(last.x))
           /\ last.ret[1] = -Cmp(last.pre, last.x, last.z).ret

(***************************************************************************)
(* C19.  z.Cmp(x) leaves the form, magnitude, scale and Context of z and   *)
(* of x unchanged for all operands, quiet and signaling NaNs included.     *)
(***************************************************************************)
C19_CmpFrame ==
    Called({"Cmp"})
        => /\ panic = "none"
           /\ Post(last.z) = Pre(last.z)
           /\ Post(last.x) = Pre(last.x)

(***************************************************************************)
(* C16.  For every zero or finite x, SetString of the text that String     *)
(* gave for x succeeds and leaves in a distinct receiver a value that is   *)
(* numerically equal to x and that Cmp finds equal to x.                   *)
(***************************************************************************)
C16_RoundTrip ==
    (/\ Called({"SetString"})
     /\ last.z = "z"
     /\ Pre("x").form \in {zero, nzero, finite}
     /\ Pre("x").Context.OperatingMode \in {Go, GDA}
     /\ last.arg = String(last.pre, "x").str)
        => /\ last.ret = <<TRUE>>
           /\ NumericOrder(Post("z"), Pre("x")) = 0
           /\ Cmp(mem, "z", "x").ret = 0

(***************************************************************************)
(* C17.  SetString of a malformed text (empty, more than one radix point,  *)
(* an exponent that is no number, a character that is no digit) returns    *)
(* ok = false and leaves the receiver quiet or signaling NaN, whatever the *)
(* receiver held before.                                                   *)
(***************************************************************************)
\* s is [sign] digits [. digits] or [sign] [digits] . digits
DecimalPart(s) ==
    LET d == Unsigned(s)
    IN  /\ CountDots(d) <= 1
        /\ \E i \in 1..Len(d) : IsDigit(d[i])
        /\ \A i \in 1..Len(d) : IsDigit(d[i]) \/ d[i] = "."

\* s is a numeric string: a decimal part and, after an exponent marker, a
\* signed integer
NumericString(s) ==
    LET at == {i \in 1..Len(s) : s[i] \in {"e", "E"}}
    IN  IF at = {} THEN DecimalPart(s)
        ELSE \E j \in at :
                /\ at = {j}
                /\ DecimalPart(SubSeq(s, 1, j - 1))
                /\ Len(Unsigned(SubSeq(s, j + 1, Len(s)))) > 0
                /\ AllDigits(Unsigned(SubSeq(s, j + 1, Len(s))))

Malformed(s) == ParseSpecial(s) = "none" /\ ~NumericString(s)

C17_MalformedIsNaN ==
    (Called({"SetString"}) /\ Malformed(last.arg))
        => /\ last.ret = <<FALSE>>
           /\ IsNaN(Post(last.z))

(***************************************************************************)
(* C21.  In native mode Add, Sub, Mul, Quo, Round, Set and SetString leave *)
(* the receiver's Context.Conditions and Context.Err as they were before   *)
(* the call.                                                               *)
(***************************************************************************)
C21_NativeTracksNothing ==
    (/\ Called(Binary \cup {"Round", "Set", "SetString"})
     /\ InMode(Go))
        => /\ Post(last.z).Context.Conditions = Pre(last.z).Context.Conditions
           /\ Post(last.z).Context.Err = Pre(last.z).Context.Err

(***************************************************************************)
(* C22.  Add, Sub, Mul, Quo, Neg, Abs, Set and Round leave the receiver's  *)
(* precision, rounding mode, operating mode and traps as they were before  *)
(* the call.                                                               *)
(***************************************************************************)
C22_ConfigurationFrame ==
    Called(Arithmetic \cup {"Set", "Round"})
        => /\ CtxPrecision(Post(last.z).Context) = CtxPrecision(Pre(last.z).Context)
           /\ Post(last.z).Context.RoundingMode = Pre(last.z).Context.RoundingMode
           /\ Post(last.z).Context.OperatingMode = Pre(last.z).Context.OperatingMode
           /\ Post(last.z).Context.Traps = Pre(last.z).Context.Traps

(***************************************************************************)
(* C23.  For a non-NaN x, z.Abs(x) leaves z the absolute value of x: the   *)
(* magnitude |x| at the scale of x for a finite x, +Inf for an infinity,   *)
(* +0 for a zero; and x is unchanged when z is another object.             *)
(***************************************************************************)
C23_AbsValue ==
    (Called({"Abs"}) /\ ~IsNaN(Pre(last.x)))
        => /\ panic = "none"
           /\ Pre(last.x).form = finite
                 => /\ Post(last.z).form = finite
                    /\ Mag(Post(last.z)) = IAbs(Mag(Pre(last.x)))
                    /\ Post(last.z).scale = Pre(last.x).scale
           /\ IsInf(Pre(last.x)) => Post(last.z).form = pinf
           /\ IsZero(Pre(last.x)) => Post(last.z).form = zero
           /\ last.z # last.x => Post(last.x) = Pre(last.x)

(***************************************************************************)
(* C24.  IsInt returns true exactly for the zeros and for the finite       *)
(* values whose fractional part is zero, and false for infinities and      *)
(* NaNs.                                                                   *)
(***************************************************************************)
\* b is a zero, or finite with its scale-many last digits all zero
IsInteger(b) ==
    \/ IsZero(b)
    \/ /\ b.form = finite
       /\ (b.scale <= 0 \/ Mag(b) % Pow(10, b.scale) = 0)

C24_IsInt ==
    Called({"IsInt"}) => last.ret = <<IsInteger(Pre(last.x))>>

(***************************************************************************)
(* C25.  For finite nonzero x and y and a configured precision p >= 1, Quo *)
(* leaves the quotient x / y rounded to p significant digits under the     *)
(* rounding mode of the receiver: the exact quotient when it has no more   *)
(* than p digits, else the neighbour the mode selects.                     *)
(***************************************************************************)
\* |x / y| * 10^s is QuoNum / QuoDen
QuoNum(x, y, s) == IAbs(Mag(x)) * Pow(10, y.scale - x.scale + s)
QuoDen(x, y, s) == IAbs(Mag(y)) * Pow(10, -(y.scale - x.scale + s))

\* the scale at which the truncated quotient has exactly p digits
QuoDigitsScale(x, y, p) ==
    CHOOSE s \in -5..5 :
        /\ QuoNum(x, y, s) \div QuoDen(x, y, s) >= Pow(10, p - 1)
        /\ QuoNum(x, y, s) \div QuoDen(x, y, s) < Pow(10, p)

QuoNegative(x, y) == (Mag(x) < 0) # (Mag(y) < 0)

\* the magnitude of x / y rounded to p digits under mode, at QuoDigitsScale
ExpectedQuo(x, y, p, mode) ==
    LET s == QuoDigitsScale(x, y, p)
        n == QuoNum(x, y, s)
        d == QuoDen(x, y, s)
        e == RoundedMagnitude(IF QuoNegative(x, y) THEN -n ELSE n, d, mode) \div d
    IN  IF QuoNegative(x, y) THEN -e ELSE e

\* b is finite and is the number v * 10^(-s)
IsNumber(b, v, s) ==
    /\ b.form = finite
    /\ Mag(b) * Pow(10, MaxOf(b.scale, s) - b.scale) = v * Pow(10, MaxOf(b.scale, s) - s)

QuoCase ==
    /\ Called({"Quo"})
    /\ Pre(last.x).form = finite
    /\ Pre(last.y).form = finite
    /\ Pre(last.z).Context.OperatingMode \in {Go, GDA}
    /\ CtxPrecision(Pre(last.z).Context) >= 1

C25_QuoRounds ==
    QuoCase
        => IsNumber(Post(last.z),
                    ExpectedQuo(Pre(last.x), Pre(last.y),
                                CtxPrecision(Pre(last.z).Context),
                                Pre(last.z).Context.RoundingMode),
                    QuoDigitsScale(Pre(last.x), Pre(last.y),
                                   CtxPrecision(Pre(last.z).Context)))

(***************************************************************************)
(* C26.  For finite nonzero x and y and a configured precision p >= 1, the *)
(* magnitude Quo stores has exactly p digits when x / y has more than p    *)
(* significant digits and at most p digits otherwise.                      *)
(***************************************************************************)
\* x / y is a decimal of no more than p significant digits
QuoExact(x, y, p) ==
    QuoNum(x, y, QuoDigitsScale(x, y, p)) % QuoDen(x, y, QuoDigitsScale(x, y, p)) = 0

C26_QuoDigits ==
    QuoCase
        => /\ Post(last.z).form = finite
           /\ IF QuoExact(Pre(last.x), Pre(last.y), CtxPrecision(Pre(last.z).Context))
              THEN Precision(Post(last.z)) <= CtxPrecision(Pre(last.z).Context)
              ELSE Precision(Post(last.z)) = CtxPrecision(Pre(last.z).Context)

(***************************************************************************)
(* C27.  In spec-compliant mode a rounding step (Round, or the rounding of *)
(* the result of Add, Sub, Mul) that discards a nonzero digit sets Inexact *)
(* and Rounded; one that discards only zeros does not set Inexact.         *)
(***************************************************************************)
\* the value that the call rounds and the number of digits it keeps, or
\* keep = 0 when the call rounds nothing
RoundingStep ==
    IF Called({"Round"}) /\ Pre(last.z).form = finite
    THEN [v |-> Mag(Pre(last.z)), keep |-> last.n]
    ELSE IF /\ Called({"Add", "Sub", "Mul"})
            /\ last.z = "z"
            /\ Pre(last.x).form = finite
            /\ Pre(last.y).form = finite
    THEN [v |-> ExactResult.v, keep |-> CtxPrecision(Pre(last.z).Context)]
    ELSE [v |-> 0, keep |-> 0]

\* the digits that the step discards, as a number
Discarded == IAbs(RoundingStep.v) % Pow(10, BigLength(RoundingStep.v) - RoundingStep.keep)

C27_InexactOnRounding ==
    (/\ InMode(GDA)
     /\ RoundingStep.keep >= 1
     /\ BigLength(RoundingStep.v) > RoundingStep.keep)
        => IF Discarded # 0
           THEN {"Inexact", "Rounded"} \subseteq Post(last.z).Context.Conditions
           ELSE "Inexact" \in Post(last.z).Context.Conditions
                   => "Inexact" \in Pre(last.z).Context.Conditions

(***************************************************************************)
(* C28.  For a digit string b without leading zero, either sign, every     *)
(* rounding mode and 1 <= prec < len(b), roundString returns the digits of *)
(* the value of b rounded to its prec leading digits under that mode, all  *)
(* discarded digits taken into account; a full carry returns prec + 1      *)
(* digits.                                                                 *)
(***************************************************************************)
\* the digits of the value of b of the given sign, rounded to prec digits
RoundedDigits(b, mode, pos, prec) ==
    LET d == Pow(10, Len(b) - prec)
        v == IF pos THEN DigitsValue(b) ELSE -DigitsValue(b)
    IN  DigitsOf(RoundedMagnitude(v, d, mode) \div d)

C28_RoundString ==
    (/\ Called({"roundString"})
     /\ last.n >= 1
     /\ last.n < Len(last.arg[1]))
        => last.ret[1] = RoundedDigits(last.arg[1],
                                       Pre(last.x).Context.RoundingMode,
                                       last.arg[2], last.n)

(***************************************************************************)
(* C29.  Formatting a finite x with a precision p of significant digits    *)
(* smaller than its digit count writes a text whose numeric value is x     *)
(* rounded to p significant digits under x's rounding mode, also when the  *)
(* rounding carries through all kept digits (9.9 with p = 1 is ten).       *)
(***************************************************************************)
\* the decimal that the text s denotes, read without a precision limit
TextNumber(s) ==
    LET fresh == NewBig(MkContext(GDA, noPrecision, "ToNearestEven", IEEETraps))
    IN  SetString([last.pre EXCEPT !["z"] = fresh], "z", s).mem["z"]

C29_FormatRounds ==
    (/\ Called({"format"})
     /\ Pre(last.x).form = finite
     /\ last.n >= 1
     /\ last.n < Precision(Pre(last.x)))
        => LET t == TextNumber(last.ret[1])
               s == MaxOf(t.scale, Pre(last.x).scale)
           IN  /\ t.form = finite
               /\ AtScale(t, s)
                     = ExpectedRound(Pre(last.x), last.n)
                          * Pow(10, s - Pre(last.x).scale)

(***************************************************************************)
(* C30.  Add, Sub, Mul and Quo with a receiver z that is a different       *)
(* object from x and y leave the form, magnitude, scale and Context of x   *)
(* and y as they were, also when an inflated operand has the lower scale   *)
(* and is multiplied by a power of ten to align the scales.                *)
(***************************************************************************)
OperandKept(p) ==
    /\ Post(p).form = Pre(p).form
    /\ Mag(Post(p)) = Mag(Pre(p))
    /\ Post(p).scale = Pre(p).scale
    /\ Post(p).Context = Pre(p).Context

C30_OperandFrame ==
    (/\ Called(Binary)
     /\ last.z \notin {last.x, last.y})
        => OperandKept(last.x) /\ OperandKept(last.y)

====
